---- MODULE Spec2Model ----
(***************************************************************************)
(* Verification model of the chess decision core of lcasviana/chess: the   *)
(* position evaluators, the ChessBot searches (transposition-table,        *)
(* similar-move and chess-ai variants), the opening book, the bot worker  *)
(* protocol, the ChessService that asks the worker, and the piece          *)
(* registry.                                                               *)
(*                                                                         *)
(* The rules engine (chess.js) is an external collaborator.  It is         *)
(* modelled as a finite game graph: a board id stands for the first four   *)
(* FEN fields (placement, side to move, castling, en passant); each board  *)
(* has its legal-move list, its check flag and a piece placement.  Scores  *)
(* are fixed-point integers: 1 pawn unit = 10000.                          *)
(***************************************************************************)
EXTENDS Integers, Sequences, FiniteSets, TLC

VARIABLES
  layout,   \* board id -> name of the piece placement standing on it
  chess,    \* the live Chess object (position, counters, move history)
  bot,      \* the ChessBot instance: kind, config, tt, evaluator cache
  out,      \* record of the last getBestMove / findBestMove call
  prev,     \* record of the call before it
  manager,  \* the ChessBotWorkerManager: worker handle, pending requests, promises
  worker,   \* the worker: queued requests, events on their way to the manager
  store,    \* the ChessService: its signals, its timers, the request it awaits
  pieceRegistry  \* the PieceRegistry: byId, bySquare, captured

vars == <<layout, chess, bot, out, prev, manager, worker, store, pieceRegistry>>

-----------------------------------------------------------------------------
(* Bounds of the model *)

MaxPly == 8        \* plies played on the live game
MaxDepth == 3      \* largest searchDepth a config may ask for
MaxCalls == 2      \* getBestMove calls on one bot instance
RandDen == 2       \* Math.random() is drawn from {0/RandDen .. (RandDen-1)/RandDen}
RandLen == 1       \* period of the stream of Math.random() draws of one call
MaxRequests == 2   \* getBestMove calls on one worker manager
MaxFaults == 1     \* error events a worker raises outside its listener
MaxEvals == 2      \* evaluate calls on one evaluator instance
MaxFaultAt == 3    \* latest evaluate call of one search that may throw
MaxInserts == 3    \* tt.set calls made on one nearly full table
BookDen == 100     \* the book's Math.random() is drawn from {0/BookDen .. (BookDen-1)/BookDen}
MaxBookDepth == 10 \* largest maxDepth shouldUseBook is asked with

-----------------------------------------------------------------------------
(* Small helpers *)

Max2(a, b) == IF a >= b THEN a ELSE b
Min2(a, b) == IF a <= b THEN a ELSE b
Abs(a) == IF a < 0 THEN -a ELSE a

\* JavaScript Infinity of the searches (larger than any score of the model)
Inf == 1000000000
\* checkmate score 1000 in fixed point
MATE == 10000000

Null == "null"
Colors == {"w", "b"}
Other(c) == IF c = "w" THEN "b" ELSE "w"

-----------------------------------------------------------------------------
(* Piece values and piece-square tables *)

PIECE_VALUES(t) ==
  CASE t = "p" -> 1 [] t = "n" -> 3 [] t = "b" -> 3
    [] t = "r" -> 5 [] t = "q" -> 9 [] t = "k" -> 0

PAWN ==
  << <<0, 0, 0, 0, 0, 0, 0, 0>>,
     <<50, 50, 50, 50, 50, 50, 50, 50>>,
     <<10, 10, 20, 30, 30, 20, 10, 10>>,
     <<5, 5, 10, 25, 25, 10, 5, 5>>,
     <<0, 0, 0, 20, 20, 0, 0, 0>>,
     <<5, -5, -10, 0, 0, -10, -5, 5>>,
     <<5, 10, 10, -20, -20, 10, 10, 5>>,
     <<0, 0, 0, 0, 0, 0, 0, 0>> >>

KNIGHT ==
  << <<-50, -40, -30, -30, -30, -30, -40, -50>>,
     <<-40, -20, 0, 0, 0, 0, -20, -40>>,
     <<-30, 0, 10, 15, 15, 10, 0, -30>>,
     <<-30, 5, 15, 20, 20, 15, 5, -30>>,
     <<-30, 0, 15, 20, 20, 15, 0, -30>>,
     <<-30, 5, 10, 15, 15, 10, 5, -30>>,
     <<-40, -20, 0, 5, 5, 0, -20, -40>>,
     <<-50, -40, -30, -30, -30, -30, -40, -50>> >>

BISHOP ==
  << <<-20, -10, -10, -10, -10, -10, -10, -20>>,
     <<-10, 0, 0, 0, 0, 0, 0, -10>>,
     <<-10, 0, 5, 10, 10, 5, 0, -10>>,
     <<-10, 5, 5, 10, 10, 5, 5, -10>>,
     <<-10, 0, 10, 10, 10, 10, 0, -10>>,
     <<-10, 10, 10, 10, 10, 10, 10, -10>>,
     <<-10, 5, 0, 0, 0, 0, 5, -10>>,
     <<-20, -10, -10, -10, -10, -10, -10, -20>> >>

ROOK ==
  << <<0, 0, 0, 0, 0, 0, 0, 0>>,
     <<5, 10, 10, 10, 10, 10, 10, 5>>,
     <<-5, 0, 0, 0, 0, 0, 0, -5>>,
     <<-5, 0, 0, 0, 0, 0, 0, -5>>,
     <<-5, 0, 0, 0, 0, 0, 0, -5>>,
     <<-5, 0, 0, 0, 0, 0, 0, -5>>,
     <<-5, 0, 0, 0, 0, 0, 0, -5>>,
     <<0, 0, 0, 5, 5, 0, 0, 0>> >>

QUEEN ==
  << <<-20, -10, -10, -5, -5, -10, -10, -20>>,
     <<-10, 0, 0, 0, 0, 0, 0, -10>>,
     <<-10, 0, 5, 5, 5, 5, 0, -10>>,
     <<-5, 0, 5, 5, 5, 5, 0, -5>>,
     <<0, 0, 5, 5, 5, 5, 0, -5>>,
     <<-10, 5, 5, 5, 5, 5, 0, -10>>,
     <<-10, 0, 5, 0, 0, 0, 0, -10>>,
     <<-20, -10, -10, -5, -5, -10, -10, -20>> >>

KING_MG ==
  << <<-30, -40, -40, -50, -50, -40, -40, -30>>,
     <<-30, -40, -40, -50, -50, -40, -40, -30>>,
     <<-30, -40, -40, -50, -50, -40, -40, -30>>,
     <<-30, -40, -40, -50, -50, -40, -40, -30>>,
     <<-20, -30, -30, -40, -40, -30, -30, -20>>,
     <<-10, -20, -20, -20, -20, -20, -20, -10>>,
     <<20, 20, 0, 0, 0, 0, 20, 20>>,
     <<20, 30, 10, 0, 0, 10, 30, 20>> >>

KING_EG ==
  << <<-50, -40, -30, -20, -20, -30, -40, -50>>,
     <<-30, -20, -10, 0, 0, -10, -20, -30>>,
     <<-30, -10, 20, 30, 30, 20, -10, -30>>,
     <<-30, -10, 30, 40, 40, 30, -10, -30>>,
     <<-30, -10, 30, 40, 40, 30, -10, -30>>,
     <<-30, -10, 20, 30, 30, 20, -10, -30>>,
     <<-30, -30, 0, 0, 0, 0, -30, -30>>,
     <<-50, -30, -30, -30, -30, -30, -30, -50>> >>
\* PST / PST_EG: table of a piece type, king table by phase flag
PST(t) ==
  CASE t = "p" -> PAWN [] t = "n" -> KNIGHT [] t = "b" -> BISHOP
    [] t = "r" -> ROOK [] t = "q" -> QUEEN [] t = "k" -> KING_MG
PST_EG(t) == IF t = "k" THEN KING_EG ELSE PST(t)

\* WEIGHTS[phase] of the single-pass evaluator, in hundredths
WEIGHTS(phase) ==
  CASE phase = 0 -> [mat |-> 100, pos |-> 30, ks |-> 20, pwn |-> 10, dev |-> 50]
    [] phase = 1 -> [mat |-> 100, pos |-> 50, ks |-> 40, pwn |-> 20, dev |-> 10]
    [] phase = 2 -> [mat |-> 100, pos |-> 40, ks |-> 10, pwn |-> 30, dev |-> 0]

\* PHASE_WEIGHTS of the multi-pass evaluator, in hundredths
PHASE_WEIGHTS(phase) ==
  CASE phase = "opening" ->
         [material |-> 100, positional |-> 30, mobility |-> 15,
          kingSafety |-> 20, pawnStructure |-> 10, development |-> 50]
    [] phase = "middlegame" ->
         [material |-> 100, positional |-> 50, mobility |-> 30,
          kingSafety |-> 40, pawnStructure |-> 20, development |-> 10]
    [] phase = "endgame" ->
         [material |-> 100, positional |-> 40, mobility |-> 25,
          kingSafety |-> 10, pawnStructure |-> 30, development |-> 0]

-----------------------------------------------------------------------------
(* Piece placements.  A placement is the sequence of the occupied squares  *)
(* of chess.board() in scan order (row 0 = rank 8 first, files a..h).      *)

Pc(t, c, rank, file) == [type |-> t, color |-> c, rank |-> rank, file |-> file]

PlacementCase(name) ==
  CASE name = "kk" -> << Pc("k", "b", 0, 4), Pc("k", "w", 7, 4) >>
    [] name = "wq" -> << Pc("k", "b", 0, 4), Pc("q", "w", 7, 3), Pc("k", "w", 7, 4) >>
    [] name = "br" -> << Pc("r", "b", 0, 0), Pc("k", "b", 0, 4), Pc("k", "w", 7, 4) >>
    [] name = "bp" -> << Pc("k", "b", 0, 4), Pc("p", "b", 5, 4), Pc("k", "w", 7, 4) >>
    [] name = "pp" -> << Pc("k", "b", 0, 4), Pc("p", "b", 3, 4), Pc("p", "w", 4, 3),
                         Pc("k", "w", 7, 4) >>
    [] name = "mid" -> << Pc("r", "b", 0, 0), Pc("k", "b", 0, 6), Pc("q", "b", 1, 3),
                          Pc("p", "b", 1, 5), Pc("n", "w", 4, 4), Pc("p", "w", 5, 4),
                          Pc("p", "w", 6, 4), Pc("k", "w", 6, 6), Pc("b", "w", 7, 2),
                          Pc("q", "w", 7, 3) >>
    \* a middlegame in which White's knight on e3 attacks the undefended queen
    \* on d5: before the capture, after it, and after the queen has withdrawn
    [] name = "q0" -> << Pc("k", "b", 0, 4), Pc("p", "b", 1, 0), Pc("q", "b", 3, 3),
                         Pc("n", "w", 5, 4), Pc("p", "w", 6, 0), Pc("k", "w", 7, 4) >>
    [] name = "q1" -> << Pc("k", "b", 0, 4), Pc("p", "b", 1, 0), Pc("n", "w", 3, 3),
                         Pc("p", "w", 6, 0), Pc("k", "w", 7, 4) >>
    [] name = "q1a" -> << Pc("p", "b", 1, 0), Pc("k", "b", 1, 3), Pc("n", "w", 3, 3),
                          Pc("p", "w", 6, 0), Pc("k", "w", 7, 4) >>
    [] name = "q1b" -> << Pc("p", "b", 1, 0), Pc("k", "b", 1, 3), Pc("n", "w", 3, 3),
                          Pc("p", "w", 6, 0), Pc("k", "w", 7, 5) >>
    [] name = "q1c" -> << Pc("k", "b", 0, 4), Pc("p", "b", 1, 0), Pc("n", "w", 3, 3),
                          Pc("p", "w", 6, 0), Pc("k", "w", 7, 5) >>
    [] name = "q2" -> << Pc("k", "b", 0, 4), Pc("p", "b", 1, 0), Pc("q", "b", 3, 3),
                         Pc("n", "w", 5, 4), Pc("p", "w", 6, 0), Pc("k", "w", 7, 5) >>
    [] name = "q2a" -> << Pc("q", "b", 0, 3), Pc("k", "b", 0, 4), Pc("p", "b", 1, 0),
                          Pc("n", "w", 5, 4), Pc("p", "w", 6, 0), Pc("k", "w", 7, 5) >>
    [] name = "q2b" -> << Pc("q", "b", 0, 3), Pc("k", "b", 0, 4), Pc("p", "b", 1, 0),
                          Pc("n", "w", 5, 4), Pc("p", "w", 6, 0), Pc("k", "w", 7, 4) >>
    \* the queen on d7 instead, out of the knight's reach
    [] name = "q3" -> << Pc("k", "b", 0, 4), Pc("p", "b", 1, 0), Pc("q", "b", 1, 3),
                         Pc("n", "w", 5, 4), Pc("p", "w", 6, 0), Pc("k", "w", 7, 4) >>
    [] name = "q3a" -> << Pc("k", "b", 0, 4), Pc("p", "b", 1, 0), Pc("q", "b", 1, 3),
                          Pc("n", "w", 5, 4), Pc("p", "w", 6, 0), Pc("k", "w", 7, 5) >>
    \* queen against rook with a pawn each (material 16), then Rxa7 (15),
    \* Qxd2+ (14), Kxd2 (5) and the kings stepping aside and back
    [] name = "p16" -> << Pc("q", "b", 0, 3), Pc("k", "b", 0, 4), Pc("p", "b", 1, 0),
                          Pc("p", "w", 6, 3), Pc("r", "w", 7, 0), Pc("k", "w", 7, 4) >>
    [] name = "p15" -> << Pc("q", "b", 0, 3), Pc("k", "b", 0, 4), Pc("r", "w", 1, 0),
                          Pc("p", "w", 6, 3), Pc("k", "w", 7, 4) >>
    [] name = "p14" -> << Pc("k", "b", 0, 4), Pc("r", "w", 1, 0), Pc("q", "b", 6, 3),
                          Pc("k", "w", 7, 4) >>
    [] name = "p5" -> << Pc("k", "b", 0, 4), Pc("r", "w", 1, 0), Pc("k", "w", 6, 3) >>
    [] name = "p5a" -> << Pc("k", "b", 0, 5), Pc("r", "w", 1, 0), Pc("k", "w", 6, 3) >>
    [] name = "p5b" -> << Pc("k", "b", 0, 5), Pc("r", "w", 1, 0), Pc("k", "w", 5, 3) >>
    [] name = "p5c" -> << Pc("k", "b", 0, 4), Pc("r", "w", 1, 0), Pc("k", "w", 5, 3) >>
    \* king and queen against the king in the corner: Qg8 mates at once; Qf2,
    \* generated before it, mates in three plies by Kb8 Qf8
    [] name = "t0" -> << Pc("k", "b", 0, 0), Pc("k", "w", 2, 1), Pc("q", "w", 7, 6) >>
    [] name = "t1" -> << Pc("k", "b", 0, 0), Pc("k", "w", 2, 1), Pc("q", "w", 6, 5) >>
    [] name = "t2" -> << Pc("k", "b", 0, 1), Pc("k", "w", 2, 1), Pc("q", "w", 6, 5) >>
    [] name = "tm1" -> << Pc("k", "b", 0, 0), Pc("q", "w", 0, 6), Pc("k", "w", 2, 1) >>
    [] name = "tm2" -> << Pc("k", "b", 0, 1), Pc("q", "w", 0, 5), Pc("k", "w", 2, 1) >>

PlacementNames == {"kk", "wq", "br", "bp", "pp", "mid",
                   "q0", "q1", "q1a", "q1b", "q1c", "q2", "q2a", "q2b", "q3", "q3a",
                   "p16", "p15", "p14", "p5", "p5a", "p5b", "p5c",
                   "t0", "t1", "t2", "tm1", "tm2"}

\* the placements by name, built once
PlacementTable == [name \in PlacementNames |-> PlacementCase(name)]
Placement(name) == PlacementTable[name]

-----------------------------------------------------------------------------
(* The rules engine: boards, legal moves, the Chess object *)

\* a verbose Move of chess.js; dest is the board the move leads to
Mv(san, piece, captured, to, dest) ==
  [san |-> san, piece |-> piece, captured |-> captured, to |-> to, dest |-> dest]

\* the null a search returns for "no move"
NullMove == Mv("null", "", "", "", "")

\* the boards of the game from the starting position
GameBoards == {"R", "A", "B", "N1", "N2", "N3", "X", "Y", "Z", "L1", "L2", "LY", "M"}
\* the boards of the middlegame with the undefended queen
QueenBoards == {"Q0", "Q1", "Q1a", "Q1b", "Q1c", "Q2", "Q2a", "Q2b", "Q3", "Q3a"}
\* the boards of the ending in which the material goes from 16 to 5
PhaseBoards == {"P16", "P15", "P14", "P5", "P5a", "P5b", "P5c"}
\* the boards of the ending with a mate in one and a mate in three plies
MateBoards == {"T0", "T1", "T2", "TM1", "TM2"}
BoardIds == GameBoards \cup QueenBoards \cup PhaseBoards \cup MateBoards

\* side to move, check flag, legal moves in generation order, and the number
\* of moves the other side would have after a null move
BoardCase(b) ==
  CASE b = "R" -> [turn |-> "w", check |-> FALSE, nullMoves |-> 2,
                   moves |-> << Mv("e3", "p", "", "e3", "B"),
                                Mv("e4", "p", "", "e4", "A"),
                                Mv("Nf3", "n", "", "f3", "N1") >>]
    [] b = "A" -> [turn |-> "b", check |-> FALSE, nullMoves |-> 3,
                   moves |-> << Mv("Bxh1", "b", "r", "h1", "Y"),
                                Mv("dxe3", "p", "p", "e3", "X") >>]
    [] b = "B" -> [turn |-> "b", check |-> FALSE, nullMoves |-> 3,
                   moves |-> << Mv("dxe3", "p", "p", "e3", "X"),
                                Mv("Kd7", "k", "", "d7", "Z") >>]
    [] b = "N1" -> [turn |-> "b", check |-> FALSE, nullMoves |-> 3,
                    moves |-> << Mv("Nf6", "n", "", "f6", "N2") >>]
    [] b = "N2" -> [turn |-> "w", check |-> FALSE, nullMoves |-> 1,
                    moves |-> << Mv("Ng1", "n", "", "g1", "N3") >>]
    [] b = "N3" -> [turn |-> "b", check |-> FALSE, nullMoves |-> 3,
                    moves |-> << Mv("Ng8", "n", "", "g8", "R") >>]
    [] b = "X" -> [turn |-> "w", check |-> FALSE, nullMoves |-> 1,
                   moves |-> << Mv("Qh5", "q", "", "h5", "L1"),
                                Mv("Kd2", "k", "", "d2", "L2") >>]
    [] b = "Y" -> [turn |-> "w", check |-> TRUE, nullMoves |-> 0,
                   moves |-> << Mv("Kxh1", "k", "b", "h1", "LY") >>]
    [] b = "Z" -> [turn |-> "w", check |-> FALSE, nullMoves |-> 4,
                   moves |-> << >>]
    [] b = "L1" -> [turn |-> "b", check |-> TRUE, nullMoves |-> 0,
                    moves |-> << Mv("Qg2#", "q", "", "g2", "M") >>]
    [] b = "L2" -> [turn |-> "b", check |-> FALSE, nullMoves |-> 2,
                    moves |-> << Mv("Qb2#", "q", "", "b2", "M") >>]
    [] b = "LY" -> [turn |-> "b", check |-> FALSE, nullMoves |-> 2,
                    moves |-> << Mv("Qf2#", "q", "", "f2", "M") >>]
    [] b = "M" -> [turn |-> "w", check |-> TRUE, nullMoves |-> 0,
                   moves |-> << >>]
    [] b = "Q0" -> [turn |-> "w", check |-> FALSE, nullMoves |-> 1,
                    moves |-> << Mv("Kf1", "k", "", "f1", "Q2"),
                                 Mv("Nxd5", "n", "q", "d5", "Q1") >>]
    [] b = "Q1" -> [turn |-> "b", check |-> FALSE, nullMoves |-> 1,
                    moves |-> << Mv("Kd7", "k", "", "d7", "Q1a") >>]
    [] b = "Q1a" -> [turn |-> "w", check |-> FALSE, nullMoves |-> 1,
                     moves |-> << Mv("Kf1", "k", "", "f1", "Q1b") >>]
    [] b = "Q1b" -> [turn |-> "b", check |-> FALSE, nullMoves |-> 1,
                     moves |-> << Mv("Ke8", "k", "", "e8", "Q1c") >>]
    [] b = "Q1c" -> [turn |-> "w", check |-> FALSE, nullMoves |-> 1,
                     moves |-> << Mv("Ke1", "k", "", "e1", "Q1") >>]
    [] b = "Q2" -> [turn |-> "b", check |-> FALSE, nullMoves |-> 1,
                    moves |-> << Mv("Qd8", "q", "", "d8", "Q2a") >>]
    [] b = "Q2a" -> [turn |-> "w", check |-> FALSE, nullMoves |-> 1,
                     moves |-> << Mv("Ke1", "k", "", "e1", "Q2b") >>]
    [] b = "Q2b" -> [turn |-> "b", check |-> FALSE, nullMoves |-> 1,
                     moves |-> << Mv("Qd5", "q", "", "d5", "Q0"),
                                  Mv("Qd7", "q", "", "d7", "Q3") >>]
    [] b = "Q3" -> [turn |-> "w", check |-> FALSE, nullMoves |-> 1,
                    moves |-> << Mv("Kf1", "k", "", "f1", "Q3a") >>]
    [] b = "Q3a" -> [turn |-> "b", check |-> FALSE, nullMoves |-> 1,
                     moves |-> << Mv("Qd8", "q", "", "d8", "Q2a") >>]
    [] b = "P16" -> [turn |-> "w", check |-> FALSE, nullMoves |-> 2,
                     moves |-> << Mv("Rxa7", "r", "p", "a7", "P15") >>]
    [] b = "P15" -> [turn |-> "b", check |-> FALSE, nullMoves |-> 2,
                     moves |-> << Mv("Qxd2+", "q", "p", "d2", "P14") >>]
    [] b = "P14" -> [turn |-> "w", check |-> TRUE, nullMoves |-> 0,
                     moves |-> << Mv("Kxd2", "k", "q", "d2", "P5") >>]
    [] b = "P5" -> [turn |-> "b", check |-> FALSE, nullMoves |-> 2,
                    moves |-> << Mv("Kf8", "k", "", "f8", "P5a") >>]
    [] b = "P5a" -> [turn |-> "w", check |-> FALSE, nullMoves |-> 1,
                     moves |-> << Mv("Kd3", "k", "", "d3", "P5b") >>]
    [] b = "P5b" -> [turn |-> "b", check |-> FALSE, nullMoves |-> 2,
                     moves |-> << Mv("Ke8", "k", "", "e8", "P5c") >>]
    [] b = "P5c" -> [turn |-> "w", check |-> FALSE, nullMoves |-> 1,
                     moves |-> << Mv("Kd2", "k", "", "d2", "P5") >>]
    [] b = "T0" -> [turn |-> "w", check |-> FALSE, nullMoves |-> 1,
                    moves |-> << Mv("Qf2", "q", "", "f2", "T1"),
                                 Mv("Qg8#", "q", "", "g8", "TM1") >>]
    [] b = "T1" -> [turn |-> "b", check |-> FALSE, nullMoves |-> 2,
                    moves |-> << Mv("Kb8", "k", "", "b8", "T2") >>]
    [] b = "T2" -> [turn |-> "w", check |-> FALSE, nullMoves |-> 2,
                    moves |-> << Mv("Qf8#", "q", "", "f8", "TM2") >>]
    [] b = "TM1" -> [turn |-> "b", check |-> TRUE, nullMoves |-> 0,
                     moves |-> << >>]
    [] b = "TM2" -> [turn |-> "b", check |-> TRUE, nullMoves |-> 0,
                     moves |-> << >>]

\* the game graph by board id, built once
BoardTable == [b \in BoardIds |-> BoardCase(b)]
BoardInfo(b) == BoardTable[b]

\* the position a new Chess() starts from
StartFen == <<"R", 0, 1>>

\* new Chess(fen): the history is empty
NewChess(fen) ==
  [board |-> fen[1], halfMoves |-> fen[2], moveNumber |-> fen[3], history |-> << >>]

\* chess.fen(): board fields, halfmove clock, fullmove number
Fen(c) == <<c.board, c.halfMoves, c.moveNumber>>

\* chess.turn()
Turn(c) == BoardInfo(c.board).turn

\* chess.moves({verbose: true}) and chess.history()
Moves(c) == BoardInfo(c.board).moves
History(c) == [i \in 1..Len(c.history) |-> c.history[i].move.san]

\* chess.move(m): push the undo record, move to m.dest, update the counters
MakeMove(c, m) ==
  [board |-> m.dest,
   halfMoves |-> IF m.piece = "p" \/ m.captured # "" THEN 0 ELSE c.halfMoves + 1,
   moveNumber |-> IF Turn(c) = "b" THEN c.moveNumber + 1 ELSE c.moveNumber,
   history |-> Append(c.history, [move |-> m, board |-> c.board,
                                  halfMoves |-> c.halfMoves,
                                  moveNumber |-> c.moveNumber])]

\* chess.undo(): pop the last record and restore it (nothing to undo: no change)
Undo(c) ==
  IF c.history = << >> THEN c
  ELSE LET h == c.history[Len(c.history)]
       IN [board |-> h.board, halfMoves |-> h.halfMoves, moveNumber |-> h.moveNumber,
           history |-> SubSeq(c.history, 1, Len(c.history) - 1)]

\* number of times the current position has occurred in the history
PositionCount(c) ==
  1 + Cardinality({i \in 1..Len(c.history) : c.history[i].board = c.board})

Pieces(c) == Placement(layout[c.board])

IsCheck(c) == BoardInfo(c.board).check
IsCheckmate(c) == IsCheck(c) /\ Moves(c) = << >>
IsStalemate(c) == ~IsCheck(c) /\ Moves(c) = << >>
IsThreefoldRepetition(c) == PositionCount(c) >= 3

\* chess.isInsufficientMaterial(): K v K, K+minor v K, or only bishops of one
\* square colour besides the kings
IsInsufficientMaterial(c) ==
  LET ps == Pieces(c)
      n == Len(ps)
      bishops == {i \in 1..n : ps[i].type = "b"}
      knights == {i \in 1..n : ps[i].type = "n"}
  IN \/ n = 2
     \/ n = 3 /\ (Cardinality(bishops) = 1 \/ Cardinality(knights) = 1)
     \/ /\ n = Cardinality(bishops) + 2
        /\ \A i, j \in bishops :
              (ps[i].rank + ps[i].file) % 2 = (ps[j].rank + ps[j].file) % 2

IsDraw(c) ==
  \/ c.halfMoves >= 100
  \/ IsStalemate(c)
  \/ IsInsufficientMaterial(c)
  \/ IsThreefoldRepetition(c)

IsGameOver(c) == IsCheckmate(c) \/ IsStalemate(c) \/ IsDraw(c)

-----------------------------------------------------------------------------
(* JavaScript Map: insertion-ordered keys and their values *)

EmptyMap == [keys |-> << >>, val |-> [k \in {} |-> 0]]
MapHas(m, k) == k \in DOMAIN m.val
MapGet(m, k) == m.val[k]
MapSize(m) == Len(m.keys)
MapSet(m, k, v) ==
  IF k \in DOMAIN m.val
    THEN [m EXCEPT !.val[k] = v]
    ELSE [keys |-> Append(m.keys, k), val |-> m.val @@ (k :> v)]

MAX_CACHE_SIZE == 50000

\* pruneCache(): above the maximum, delete the oldest keys down to 70%
pruneCache(m) ==
  IF MapSize(m) > MAX_CACHE_SIZE
    THEN LET entriesToRemove == MapSize(m) - ((MAX_CACHE_SIZE * 7) \div 10)
             kept == SubSeq(m.keys, entriesToRemove + 1, Len(m.keys))
         IN [keys |-> kept,
             val |-> [k \in {kept[i] : i \in 1..Len(kept)} |-> m.val[k]]]
    ELSE m

-----------------------------------------------------------------------------
(* Single-pass evaluator with its FEN-keyed cache *)

\* the accumulators before the scan of the 64 squares
spInit ==
  [mat |-> 0, pos |-> 0, tot |-> 0, dev |-> 0, kRank |-> -1,
   pawnFiles |-> [f \in 0..7 |-> 0]]

\* the loop body for one occupied square
spSquare(acc, piece, color) ==
  LET val == PIECE_VALUES(piece.type)
      own == piece.color = color
      sign == IF own THEN 1 ELSE -1
      backRank == IF color = "w" THEN 0 ELSE 7
      tot == IF piece.type # "k" THEN acc.tot + val ELSE acc.tot
      row == IF piece.color = "w" THEN 7 - piece.rank ELSE piece.rank
      pst == IF tot > 15 THEN PST(piece.type) ELSE PST_EG(piece.type)
  IN [mat |-> acc.mat + sign * val,
      pos |-> acc.pos + sign * pst[row + 1][piece.file + 1],
      tot |-> tot,
      dev |-> acc.dev
              + (IF own /\ piece.type \in {"n", "b"} /\ piece.rank = backRank
                   THEN -20 ELSE 0)
              + (IF own /\ piece.file >= 3 /\ piece.file <= 4
                        /\ piece.rank >= 3 /\ piece.rank <= 4
                   THEN 30 ELSE 0),
      kRank |-> IF piece.type = "k" /\ own THEN piece.rank ELSE acc.kRank,
      pawnFiles |-> IF piece.type = "p" /\ own
                      THEN [acc.pawnFiles EXCEPT ![piece.file] = @ + 1]
                      ELSE acc.pawnFiles]

RECURSIVE spScan(_, _, _, _)
spScan(ps, i, color, acc) ==
  IF i > Len(ps) THEN acc
  ELSE spScan(ps, i + 1, color, spSquare(acc, ps[i], color))

RECURSIVE spPawns(_, _)
spPawns(pawnFiles, f) ==
  IF f > 7 THEN 0
  ELSE (IF pawnFiles[f] > 1 THEN -50 * (pawnFiles[f] - 1) ELSE 0)
       + (IF f < 7 /\ pawnFiles[f] > 0 /\ pawnFiles[f + 1] > 0 THEN 10 ELSE 0)
       + spPawns(pawnFiles, f + 1)

spKingSafety(kRank, color) ==
  IF kRank >= 0
    THEN IF color = "w"
           THEN (IF kRank < 2 THEN 50 ELSE IF kRank > 3 THEN -50 ELSE 0)
           ELSE (IF kRank > 5 THEN 50 ELSE IF kRank < 4 THEN -50 ELSE 0)
    ELSE 0

\* the score of a non-terminal position: weighted sum by phase
spScore(ps, color) ==
  LET a == spScan(ps, 1, color, spInit)
      phase == IF a.tot > 30 THEN 0 ELSE IF a.tot > 15 THEN 1 ELSE 2
      w == WEIGHTS(phase)
  IN a.mat * 100 * w.mat + a.pos * w.pos + spKingSafety(a.kRank, color) * w.ks
     + spPawns(a.pawnFiles, 0) * w.pwn + a.dev * w.dev

\* the same evaluate with the checkmate score put into the cache as well
spEvaluate_cachingMate(cache, c, color) ==
  IF MapHas(cache, Fen(c))
    THEN [score |-> MapGet(cache, Fen(c)), cache |-> cache]
  ELSE IF IsCheckmate(c)
    THEN LET score == IF Turn(c) = color THEN -MATE ELSE MATE
         IN [score |-> score, cache |-> pruneCache(MapSet(cache, Fen(c), score))]
  ELSE IF IsDraw(c) \/ IsStalemate(c) \/ IsThreefoldRepetition(c)
    THEN [score |-> 0, cache |-> cache]
  ELSE LET score == spScore(Pieces(c), color)
       IN [score |-> score, cache |-> pruneCache(MapSet(cache, Fen(c), score))]

\* ChessEvaluator.evaluate of the single-pass evaluator: cache probe by FEN,
\* terminal checks, score, cache insertion.  Yields the score and the cache.
spEvaluate(cache, c, color) ==
  IF MapHas(cache, Fen(c))
    THEN [score |-> MapGet(cache, Fen(c)), cache |-> cache]
  ELSE IF IsCheckmate(c)
    THEN [score |-> IF Turn(c) = color THEN -MATE ELSE MATE, cache |-> cache]
  ELSE IF IsDraw(c) \/ IsStalemate(c) \/ IsThreefoldRepetition(c)
    THEN [score |-> 0, cache |-> cache]
  ELSE LET score == spScore(Pieces(c), color)
       IN [score |-> score, cache |-> pruneCache(MapSet(cache, Fen(c), score))]

-----------------------------------------------------------------------------
(* Multi-pass evaluator (no cache) *)

\* board[rank][file]: the indexes of the pieces standing there (at most one)
At(ps, rank, file) == {i \in 1..Len(ps) : ps[i].rank = rank /\ ps[i].file = file}

RECURSIVE SeqSum(_, _)
SeqSum(s, i) == IF i > Len(s) THEN 0 ELSE s[i] + SeqSum(s, i + 1)

\* sum of F(ps[i]) over the placement
SumOver(ps, i, F(_)) == SeqSum([k \in 1..Len(ps) |-> F(ps[k])], i)

detectGamePhase(ps) ==
  LET nonKing(pc) == IF pc.type # "k" THEN PIECE_VALUES(pc.type) ELSE 0
      totalMaterial == SumOver(ps, 1, nonKing)
  IN IF totalMaterial > 30 THEN "opening"
     ELSE IF totalMaterial > 15 THEN "middlegame"
     ELSE "endgame"

\* squareName is file letter + (row + 1); the value is read back from it
getPieceSquareValue(piece, rank, file, color, phase) ==
  LET row == IF color = "w" THEN 7 - rank ELSE rank
      table == IF piece = "k"
                 THEN (IF phase = "endgame" THEN KING_EG ELSE KING_MG)
                 ELSE PST(piece)
  IN table[row + 1][file + 1]

evaluateMaterial(ps, color) ==
  LET v(pc) == IF pc.color = color THEN PIECE_VALUES(pc.type) * 100
               ELSE -(PIECE_VALUES(pc.type) * 100)
  IN SumOver(ps, 1, v)

evaluatePositional(ps, color, phase) ==
  LET v(pc) == LET value == getPieceSquareValue(pc.type, pc.rank, pc.file, pc.color, phase)
               IN IF pc.color = color THEN value ELSE -value
  IN SumOver(ps, 1, v)

\* our moves minus their moves, 0.1 each; their moves after a null move come
\* from a scratch position with the side to move switched
evaluateMobility(c, color) ==
  LET n == Len(Moves(c))
      ourMoves == IF Turn(c) = color THEN n ELSE 20
      theirMoves == IF Turn(c) = color THEN BoardInfo(c.board).nullMoves ELSE n
  IN (ourMoves - theirMoves) * 10

evaluateKingSafety(ps, color) ==
  LET kings == {i \in 1..Len(ps) : ps[i].type = "k" /\ ps[i].color = color}
  IN IF kings = {} THEN 0
     ELSE LET k == CHOOSE i \in kings : \A j \in kings : i <= j
              rank == ps[k].rank
          IN (IF color = "w" /\ rank < 2 THEN 50
              ELSE IF color = "b" /\ rank > 5 THEN 50 ELSE 0)
             + (IF color = "w" /\ rank > 3 THEN -50
                ELSE IF color = "b" /\ rank < 4 THEN -50 ELSE 0)

evaluatePawnStructure(ps, color) ==
  LET count(f) == Cardinality({i \in 1..Len(ps) :
                     ps[i].type = "p" /\ ps[i].color = color /\ ps[i].file = f})
      files == {f \in 0..7 : count(f) > 0}
      RECURSIVE doubled(_)
      doubled(f) == IF f > 7 THEN 0
                    ELSE (IF count(f) > 1 THEN -50 * (count(f) - 1) ELSE 0) + doubled(f + 1)
  IN doubled(0) + 10 * Cardinality({f \in files : f + 1 \in files})

evaluateDevelopment(ps, color) ==
  LET backRank == IF color = "w" THEN 0 ELSE 7
      undeveloped == {i \in 1..Len(ps) : /\ ps[i].rank = backRank
                                         /\ ps[i].color = color
                                         /\ ps[i].type \in {"n", "b"}}
      center == {i \in 1..Len(ps) : /\ ps[i].file \in {3, 4}
                                    /\ ps[i].rank \in {3, 4}
                                    /\ ps[i].color = color}
  IN -20 * Cardinality(undeveloped) + 30 * Cardinality(center)

\* ChessEvaluator.evaluate of the multi-pass evaluator
mpEvaluate(c, color) ==
  IF IsCheckmate(c) THEN (IF Turn(c) = color THEN -MATE ELSE MATE)
  ELSE IF IsDraw(c) \/ IsStalemate(c) \/ IsThreefoldRepetition(c) THEN 0
  ELSE LET ps == Pieces(c)
           phase == detectGamePhase(ps)
           weights == PHASE_WEIGHTS(phase)
       IN evaluateMaterial(ps, color) * weights.material
          + evaluatePositional(ps, color, phase) * weights.positional
          + evaluateMobility(c, color) * weights.mobility
          + evaluateKingSafety(ps, color) * weights.kingSafety
          + evaluatePawnStructure(ps, color) * weights.pawnStructure
          + evaluateDevelopment(ps, color) * weights.development

-----------------------------------------------------------------------------
(* chess-ai: evaluateBoard in centipawns, from White's point of view *)

AI_PIECE_VALUES(t) ==
  CASE t = "p" -> 100 [] t = "n" -> 320 [] t = "b" -> 330
    [] t = "r" -> 500 [] t = "q" -> 900 [] t = "k" -> 20000

isEndgame(ps) ==
  LET heavy(col) == {i \in 1..Len(ps) : ps[i].color = col /\ ps[i].type \notin {"k", "p"}}
      queens(col) == {i \in heavy(col) : ps[i].type = "q"}
      mat(col) == LET v(pc) == IF pc.color = col /\ pc.type \notin {"k", "p"}
                                 THEN AI_PIECE_VALUES(pc.type) ELSE 0
                  IN SumOver(ps, 1, v)
  IN IF queens("w") = {} /\ queens("b") = {} THEN TRUE
     ELSE IF queens("w") # {} /\ mat("w") > 1200 THEN FALSE
     ELSE IF queens("b") # {} /\ mat("b") > 1200 THEN FALSE
     ELSE TRUE

evaluateBoard(c) ==
  LET ps == Pieces(c)
      isEndgamePhase == isEndgame(ps)
      v(pc) ==
        LET row == IF pc.color = "w" THEN pc.rank ELSE 7 - pc.rank
            col == IF pc.color = "w" THEN pc.file ELSE 7 - pc.file
            positionBonus == IF pc.type = "k" /\ isEndgamePhase
                               THEN KING_EG[row + 1][col + 1]
                               ELSE PST(pc.type)[row + 1][col + 1]
            totalValue == AI_PIECE_VALUES(pc.type) + positionBonus
        IN IF pc.color = "w" THEN totalValue ELSE -totalValue
  IN SumOver(ps, 1, v)

-----------------------------------------------------------------------------
(* Opening book *)

Bk(move, weight) == [move |-> move, weight |-> weight]

\* OPENING_BOOK[key], the key being the history before it is joined with
\* commas.  known: the key is in the table; hasMoves: its entry has a moves
\* list.  An absent key and an absent list read as the empty list.
OPENING_BOOK(key) ==
  CASE key = << >> ->
         [known |-> TRUE, hasMoves |-> TRUE,
          moves |-> << Bk("e4", 40), Bk("d4", 35), Bk("Nf3", 15), Bk("c4", 10) >>]
    [] key = << "e4" >> ->
         [known |-> TRUE, hasMoves |-> TRUE,
          moves |-> << Bk("e5", 50), Bk("c5", 30), Bk("e6", 10), Bk("c6", 5), Bk("d5", 5) >>]
    [] key = << "e4", "e5" >> ->
         [known |-> TRUE, hasMoves |-> TRUE,
          moves |-> << Bk("Nf3", 60), Bk("Bc4", 20), Bk("Nc3", 10), Bk("f4", 10) >>]
    [] key = << "e4", "e5", "Nf3" >> ->
         [known |-> TRUE, hasMoves |-> TRUE,
          moves |-> << Bk("Nc6", 60), Bk("Nf6", 30), Bk("d6", 10) >>]
    [] key = << "e4", "e5", "Nf3", "Nc6" >> ->
         [known |-> TRUE, hasMoves |-> TRUE,
          moves |-> << Bk("Bc4", 45), Bk("Bb5", 45), Bk("d4", 10) >>]
    [] key = << "e4", "e5", "Nf3", "Nc6", "Bc4" >> ->
         [known |-> TRUE, hasMoves |-> TRUE,
          moves |-> << Bk("Bc5", 50), Bk("Nf6", 30), Bk("Be7", 20) >>]
    [] key = << "e4", "e5", "Nf3", "Nc6", "Bc4", "Bc5" >> ->
         [known |-> TRUE, hasMoves |-> TRUE,
          moves |-> << Bk("c3", 50), Bk("d3", 30), Bk("Nc3", 20) >>]
    [] key = << "e4", "e5", "Nf3", "Nc6", "Bc4", "Bc5", "c3" >> ->
         [known |-> TRUE, hasMoves |-> FALSE, moves |-> << >>]
    [] key = << "e4", "e5", "Nf3", "Nc6", "Bc4", "Bc5", "d3" >> ->
         [known |-> TRUE, hasMoves |-> FALSE, moves |-> << >>]
    [] key = << "e4", "e5", "Nf3", "Nc6", "Bc4", "Nf6" >> ->
         [known |-> TRUE, hasMoves |-> FALSE, moves |-> << >>]
    [] key = << "e4", "e5", "Nf3", "Nc6", "Bc4", "Be7" >> ->
         [known |-> TRUE, hasMoves |-> FALSE, moves |-> << >>]
    [] key = << "e4", "e5", "Nf3", "Nc6", "Bb5" >> ->
         [known |-> TRUE, hasMoves |-> TRUE,
          moves |-> << Bk("a6", 70), Bk("Nf6", 20), Bk("d6", 10) >>]
    [] key = << "e4", "e5", "Nf3", "Nc6", "Bb5", "a6" >> ->
         [known |-> TRUE, hasMoves |-> TRUE,
          moves |-> << Bk("Ba4", 80), Bk("Bxc6", 20) >>]
    [] key = << "e4", "e5", "Nf3", "Nc6", "Bb5", "a6", "Ba4" >> ->
         [known |-> TRUE, hasMoves |-> FALSE, moves |-> << >>]
    [] key = << "e4", "e5", "Nf3", "Nc6", "Bb5", "a6", "Bxc6" >> ->
         [known |-> TRUE, hasMoves |-> FALSE, moves |-> << >>]
    [] key = << "e4", "e5", "Nf3", "Nc6", "Bb5", "Nf6" >> ->
         [known |-> TRUE, hasMoves |-> FALSE, moves |-> << >>]
    [] key = << "e4", "e5", "Nf3", "Nc6", "Bb5", "d6" >> ->
         [known |-> TRUE, hasMoves |-> FALSE, moves |-> << >>]
    [] key = << "e4", "e5", "Nf3", "Nc6", "d4" >> ->
         [known |-> TRUE, hasMoves |-> FALSE, moves |-> << >>]
    [] key = << "e4", "e5", "Nf3", "Nf6" >> ->
         [known |-> TRUE, hasMoves |-> FALSE, moves |-> << >>]
    [] key = << "e4", "e5", "Nf3", "d6" >> ->
         [known |-> TRUE, hasMoves |-> FALSE, moves |-> << >>]
    [] key = << "e4", "e5", "Bc4" >> ->
         [known |-> TRUE, hasMoves |-> FALSE, moves |-> << >>]
    [] key = << "e4", "e5", "Nc3" >> ->
         [known |-> TRUE, hasMoves |-> FALSE, moves |-> << >>]
    [] key = << "e4", "e5", "f4" >> ->
         [known |-> TRUE, hasMoves |-> FALSE, moves |-> << >>]
    [] key = << "e4", "c5" >> ->
         [known |-> TRUE, hasMoves |-> TRUE,
          moves |-> << Bk("Nf3", 70), Bk("Nc3", 20), Bk("c3", 10) >>]
    [] key = << "e4", "c5", "Nf3" >> ->
         [known |-> TRUE, hasMoves |-> TRUE,
          moves |-> << Bk("d6", 40), Bk("Nc6", 35), Bk("e6", 15), Bk("g6", 10) >>]
    [] key = << "e4", "c5", "Nf3", "d6" >> ->
         [known |-> TRUE, hasMoves |-> TRUE,
          moves |-> << Bk("d4", 90), Bk("Bb5+", 10) >>]
    [] key = << "e4", "c5", "Nf3", "d6", "d4" >> ->
         [known |-> TRUE, hasMoves |-> TRUE,
          moves |-> << Bk("cxd4", 100) >>]
    [] key = << "e4", "c5", "Nf3", "d6", "d4", "cxd4" >> ->
         [known |-> TRUE, hasMoves |-> TRUE,
          moves |-> << Bk("Nxd4", 100) >>]
    [] key = << "e4", "c5", "Nf3", "d6", "d4", "cxd4", "Nxd4" >> ->
         [known |-> TRUE, hasMoves |-> FALSE, moves |-> << >>]
    [] key = << "e4", "c5", "Nf3", "Nc6" >> ->
         [known |-> TRUE, hasMoves |-> FALSE, moves |-> << >>]
    [] key = << "e4", "c5", "Nf3", "e6" >> ->
         [known |-> TRUE, hasMoves |-> FALSE, moves |-> << >>]
    [] key = << "e4", "c5", "Nf3", "g6" >> ->
         [known |-> TRUE, hasMoves |-> FALSE, moves |-> << >>]
    [] key = << "e4", "c5", "Nc3" >> ->
         [known |-> TRUE, hasMoves |-> FALSE, moves |-> << >>]
    [] key = << "e4", "c5", "c3" >> ->
         [known |-> TRUE, hasMoves |-> FALSE, moves |-> << >>]
    [] key = << "e4", "e6" >> ->
         [known |-> TRUE, hasMoves |-> TRUE,
          moves |-> << Bk("d4", 80), Bk("d3", 10), Bk("Nf3", 10) >>]
    [] key = << "e4", "e6", "d4" >> ->
         [known |-> TRUE, hasMoves |-> TRUE,
          moves |-> << Bk("d5", 100) >>]
    [] key = << "e4", "e6", "d4", "d5" >> ->
         [known |-> TRUE, hasMoves |-> TRUE,
          moves |-> << Bk("Nc3", 50), Bk("Nd2", 30), Bk("e5", 20) >>]
    [] key = << "e4", "e6", "d4", "d5", "Nc3" >> ->
         [known |-> TRUE, hasMoves |-> FALSE, moves |-> << >>]
    [] key = << "e4", "e6", "d4", "d5", "Nd2" >> ->
         [known |-> TRUE, hasMoves |-> FALSE, moves |-> << >>]
    [] key = << "e4", "e6", "d4", "d5", "e5" >> ->
         [known |-> TRUE, hasMoves |-> FALSE, moves |-> << >>]
    [] key = << "e4", "e6", "d3" >> ->
         [known |-> TRUE, hasMoves |-> FALSE, moves |-> << >>]
    [] key = << "e4", "c6" >> ->
         [known |-> TRUE, hasMoves |-> TRUE,
          moves |-> << Bk("d4", 80), Bk("Nc3", 15), Bk("Nf3", 5) >>]
    [] key = << "e4", "c6", "d4" >> ->
         [known |-> TRUE, hasMoves |-> TRUE,
          moves |-> << Bk("d5", 100) >>]
    [] key = << "e4", "c6", "d4", "d5" >> ->
         [known |-> TRUE, hasMoves |-> TRUE,
          moves |-> << Bk("Nc3", 50), Bk("Nd2", 30), Bk("e5", 20) >>]
    [] key = << "e4", "c6", "d4", "d5", "Nc3" >> ->
         [known |-> TRUE, hasMoves |-> FALSE, moves |-> << >>]
    [] key = << "e4", "c6", "d4", "d5", "Nd2" >> ->
         [known |-> TRUE, hasMoves |-> FALSE, moves |-> << >>]
    [] key = << "e4", "c6", "d4", "d5", "e5" >> ->
         [known |-> TRUE, hasMoves |-> FALSE, moves |-> << >>]
    [] key = << "e4", "d5" >> ->
         [known |-> TRUE, hasMoves |-> TRUE,
          moves |-> << Bk("exd5", 100) >>]
    [] key = << "e4", "d5", "exd5" >> ->
         [known |-> TRUE, hasMoves |-> TRUE,
          moves |-> << Bk("Qxd5", 60), Bk("Nf6", 40) >>]
    [] key = << "e4", "d5", "exd5", "Qxd5" >> ->
         [known |-> TRUE, hasMoves |-> TRUE,
          moves |-> << Bk("Nc3", 80), Bk("Nf3", 20) >>]
    [] key = << "e4", "d5", "exd5", "Qxd5", "Nc3" >> ->
         [known |-> TRUE, hasMoves |-> FALSE, moves |-> << >>]
    [] key = << "e4", "d5", "exd5", "Nf6" >> ->
         [known |-> TRUE, hasMoves |-> FALSE, moves |-> << >>]
    [] key = << "e4", "d6" >> ->
         [known |-> TRUE, hasMoves |-> TRUE,
          moves |-> << Bk("d4", 80), Bk("Nc3", 15), Bk("Nf3", 5) >>]
    [] key = << "e4", "d6", "d4" >> ->
         [known |-> TRUE, hasMoves |-> TRUE,
          moves |-> << Bk("Nf6", 70), Bk("g6", 30) >>]
    [] key = << "e4", "d6", "d4", "Nf6" >> ->
         [known |-> TRUE, hasMoves |-> TRUE,
          moves |-> << Bk("Nc3", 70), Bk("Nf3", 20), Bk("f3", 10) >>]
    [] key = << "e4", "d6", "d4", "Nf6", "Nc3" >> ->
         [known |-> TRUE, hasMoves |-> FALSE, moves |-> << >>]
    [] key = << "e4", "d6", "d4", "Nf6", "f3" >> ->
         [known |-> TRUE, hasMoves |-> FALSE, moves |-> << >>]
    [] key = << "e4", "d6", "d4", "g6" >> ->
         [known |-> TRUE, hasMoves |-> FALSE, moves |-> << >>]
    [] key = << "d4" >> ->
         [known |-> TRUE, hasMoves |-> TRUE,
          moves |-> << Bk("d5", 45), Bk("Nf6", 40), Bk("e6", 10), Bk("f5", 5) >>]
    [] key = << "d4", "d5" >> ->
         [known |-> TRUE, hasMoves |-> TRUE,
          moves |-> << Bk("c4", 70), Bk("Nf3", 20), Bk("Bf4", 10) >>]
    [] key = << "d4", "d5", "c4" >> ->
         [known |-> TRUE, hasMoves |-> TRUE,
          moves |-> << Bk("e6", 50), Bk("c6", 30), Bk("dxc4", 15), Bk("Nf6", 5) >>]
    [] key = << "d4", "d5", "c4", "e6" >> ->
         [known |-> TRUE, hasMoves |-> TRUE,
          moves |-> << Bk("Nc3", 60), Bk("Nf3", 40) >>]
    [] key = << "d4", "d5", "c4", "e6", "Nc3" >> ->
         [known |-> TRUE, hasMoves |-> TRUE,
          moves |-> << Bk("Nf6", 80), Bk("Be7", 20) >>]
    [] key = << "d4", "d5", "c4", "e6", "Nc3", "Nf6" >> ->
         [known |-> TRUE, hasMoves |-> FALSE, moves |-> << >>]
    [] key = << "d4", "d5", "c4", "c6" >> ->
         [known |-> TRUE, hasMoves |-> FALSE, moves |-> << >>]
    [] key = << "d4", "d5", "c4", "dxc4" >> ->
         [known |-> TRUE, hasMoves |-> FALSE, moves |-> << >>]
    [] key = << "d4", "d5", "Nf3" >> ->
         [known |-> TRUE, hasMoves |-> FALSE, moves |-> << >>]
    [] key = << "d4", "d5", "Bf4" >> ->
         [known |-> TRUE, hasMoves |-> FALSE, moves |-> << >>]
    [] key = << "d4", "Nf6" >> ->
         [known |-> TRUE, hasMoves |-> TRUE,
          moves |-> << Bk("c4", 70), Bk("Nf3", 20), Bk("Bg5", 10) >>]
    [] key = << "d4", "Nf6", "c4" >> ->
         [known |-> TRUE, hasMoves |-> TRUE,
          moves |-> << Bk("g6", 40), Bk("e6", 35), Bk("e5", 15), Bk("c5", 10) >>]
    [] key = << "d4", "Nf6", "c4", "g6" >> ->
         [known |-> TRUE, hasMoves |-> TRUE,
          moves |-> << Bk("Nc3", 70), Bk("Nf3", 30) >>]
    [] key = << "d4", "Nf6", "c4", "g6", "Nc3" >> ->
         [known |-> TRUE, hasMoves |-> TRUE,
          moves |-> << Bk("Bg7", 80), Bk("d5", 20) >>]
    [] key = << "d4", "Nf6", "c4", "g6", "Nc3", "Bg7" >> ->
         [known |-> TRUE, hasMoves |-> TRUE,
          moves |-> << Bk("e4", 60), Bk("Nf3", 40) >>]
    [] key = << "d4", "Nf6", "c4", "g6", "Nc3", "Bg7", "e4" >> ->
         [known |-> TRUE, hasMoves |-> FALSE, moves |-> << >>]
    [] key = << "d4", "Nf6", "c4", "g6", "Nc3", "d5" >> ->
         [known |-> TRUE, hasMoves |-> FALSE, moves |-> << >>]
    [] key = << "d4", "Nf6", "c4", "e6" >> ->
         [known |-> TRUE, hasMoves |-> FALSE, moves |-> << >>]
    [] key = << "d4", "Nf6", "c4", "e5" >> ->
         [known |-> TRUE, hasMoves |-> FALSE, moves |-> << >>]
    [] key = << "d4", "Nf6", "c4", "c5" >> ->
         [known |-> TRUE, hasMoves |-> FALSE, moves |-> << >>]
    [] key = << "d4", "Nf6", "Bg5" >> ->
         [known |-> TRUE, hasMoves |-> FALSE, moves |-> << >>]
    [] key = << "d4", "f5" >> ->
         [known |-> TRUE, hasMoves |-> FALSE, moves |-> << >>]
    [] key = << "c4" >> ->
         [known |-> TRUE, hasMoves |-> TRUE,
          moves |-> << Bk("e5", 40), Bk("Nf6", 30), Bk("c5", 15), Bk("e6", 15) >>]
    [] key = << "c4", "e5" >> ->
         [known |-> TRUE, hasMoves |-> TRUE,
          moves |-> << Bk("Nc3", 60), Bk("g3", 30), Bk("Nf3", 10) >>]
    [] key = << "c4", "e5", "Nc3" >> ->
         [known |-> TRUE, hasMoves |-> TRUE,
          moves |-> << Bk("Nf6", 50), Bk("Nc6", 30), Bk("Bb4", 20) >>]
    [] key = << "c4", "e5", "Nc3", "Nf6" >> ->
         [known |-> TRUE, hasMoves |-> FALSE, moves |-> << >>]
    [] key = << "c4", "e5", "Nc3", "Nc6" >> ->
         [known |-> TRUE, hasMoves |-> FALSE, moves |-> << >>]
    [] key = << "c4", "e5", "Nc3", "Bb4" >> ->
         [known |-> TRUE, hasMoves |-> FALSE, moves |-> << >>]
    [] key = << "c4", "c5" >> ->
         [known |-> TRUE, hasMoves |-> FALSE, moves |-> << >>]
    [] key = << "Nf3" >> ->
         [known |-> TRUE, hasMoves |-> TRUE,
          moves |-> << Bk("d5", 40), Bk("Nf6", 35), Bk("c5", 15), Bk("g6", 10) >>]
    [] key = << "Nf3", "d5" >> ->
         [known |-> TRUE, hasMoves |-> TRUE,
          moves |-> << Bk("c4", 50), Bk("g3", 30), Bk("d4", 20) >>]
    [] key = << "Nf3", "d5", "c4" >> ->
         [known |-> TRUE, hasMoves |-> FALSE, moves |-> << >>]
    [] key = << "Nf3", "d5", "g3" >> ->
         [known |-> TRUE, hasMoves |-> FALSE, moves |-> << >>]
    [] OTHER -> [known |-> FALSE, hasMoves |-> FALSE, moves |-> << >>]

\* Object.keys(OPENING_BOOK), each split at its commas
OPENING_BOOK_KEYS ==
  { << >>,
    << "e4" >>,
    << "e4", "e5" >>,
    << "e4", "e5", "Nf3" >>,
    << "e4", "e5", "Nf3", "Nc6" >>,
    << "e4", "e5", "Nf3", "Nc6", "Bc4" >>,
    << "e4", "e5", "Nf3", "Nc6", "Bc4", "Bc5" >>,
    << "e4", "e5", "Nf3", "Nc6", "Bc4", "Bc5", "c3" >>,
    << "e4", "e5", "Nf3", "Nc6", "Bc4", "Bc5", "d3" >>,
    << "e4", "e5", "Nf3", "Nc6", "Bc4", "Nf6" >>,
    << "e4", "e5", "Nf3", "Nc6", "Bc4", "Be7" >>,
    << "e4", "e5", "Nf3", "Nc6", "Bb5" >>,
    << "e4", "e5", "Nf3", "Nc6", "Bb5", "a6" >>,
    << "e4", "e5", "Nf3", "Nc6", "Bb5", "a6", "Ba4" >>,
    << "e4", "e5", "Nf3", "Nc6", "Bb5", "a6", "Bxc6" >>,
    << "e4", "e5", "Nf3", "Nc6", "Bb5", "Nf6" >>,
    << "e4", "e5", "Nf3", "Nc6", "Bb5", "d6" >>,
    << "e4", "e5", "Nf3", "Nc6", "d4" >>,
    << "e4", "e5", "Nf3", "Nf6" >>,
    << "e4", "e5", "Nf3", "d6" >>,
    << "e4", "e5", "Bc4" >>,
    << "e4", "e5", "Nc3" >>,
    << "e4", "e5", "f4" >>,
    << "e4", "c5" >>,
    << "e4", "c5", "Nf3" >>,
    << "e4", "c5", "Nf3", "d6" >>,
    << "e4", "c5", "Nf3", "d6", "d4" >>,
    << "e4", "c5", "Nf3", "d6", "d4", "cxd4" >>,
    << "e4", "c5", "Nf3", "d6", "d4", "cxd4", "Nxd4" >>,
    << "e4", "c5", "Nf3", "Nc6" >>,
    << "e4", "c5", "Nf3", "e6" >>,
    << "e4", "c5", "Nf3", "g6" >>,
    << "e4", "c5", "Nc3" >>,
    << "e4", "c5", "c3" >>,
    << "e4", "e6" >>,
    << "e4", "e6", "d4" >>,
    << "e4", "e6", "d4", "d5" >>,
    << "e4", "e6", "d4", "d5", "Nc3" >>,
    << "e4", "e6", "d4", "d5", "Nd2" >>,
    << "e4", "e6", "d4", "d5", "e5" >>,
    << "e4", "e6", "d3" >>,
    << "e4", "c6" >>,
    << "e4", "c6", "d4" >>,
    << "e4", "c6", "d4", "d5" >>,
    << "e4", "c6", "d4", "d5", "Nc3" >>,
    << "e4", "c6", "d4", "d5", "Nd2" >>,
    << "e4", "c6", "d4", "d5", "e5" >>,
    << "e4", "d5" >>,
    << "e4", "d5", "exd5" >>,
    << "e4", "d5", "exd5", "Qxd5" >>,
    << "e4", "d5", "exd5", "Qxd5", "Nc3" >>,
    << "e4", "d5", "exd5", "Nf6" >>,
    << "e4", "d6" >>,
    << "e4", "d6", "d4" >>,
    << "e4", "d6", "d4", "Nf6" >>,
    << "e4", "d6", "d4", "Nf6", "Nc3" >>,
    << "e4", "d6", "d4", "Nf6", "f3" >>,
    << "e4", "d6", "d4", "g6" >>,
    << "d4" >>,
    << "d4", "d5" >>,
    << "d4", "d5", "c4" >>,
    << "d4", "d5", "c4", "e6" >>,
    << "d4", "d5", "c4", "e6", "Nc3" >>,
    << "d4", "d5", "c4", "e6", "Nc3", "Nf6" >>,
    << "d4", "d5", "c4", "c6" >>,
    << "d4", "d5", "c4", "dxc4" >>,
    << "d4", "d5", "Nf3" >>,
    << "d4", "d5", "Bf4" >>,
    << "d4", "Nf6" >>,
    << "d4", "Nf6", "c4" >>,
    << "d4", "Nf6", "c4", "g6" >>,
    << "d4", "Nf6", "c4", "g6", "Nc3" >>,
    << "d4", "Nf6", "c4", "g6", "Nc3", "Bg7" >>,
    << "d4", "Nf6", "c4", "g6", "Nc3", "Bg7", "e4" >>,
    << "d4", "Nf6", "c4", "g6", "Nc3", "d5" >>,
    << "d4", "Nf6", "c4", "e6" >>,
    << "d4", "Nf6", "c4", "e5" >>,
    << "d4", "Nf6", "c4", "c5" >>,
    << "d4", "Nf6", "Bg5" >>,
    << "d4", "f5" >>,
    << "c4" >>,
    << "c4", "e5" >>,
    << "c4", "e5", "Nc3" >>,
    << "c4", "e5", "Nc3", "Nf6" >>,
    << "c4", "e5", "Nc3", "Nc6" >>,
    << "c4", "e5", "Nc3", "Bb4" >>,
    << "c4", "c5" >>,
    << "Nf3" >>,
    << "Nf3", "d5" >>,
    << "Nf3", "d5", "c4" >>,
    << "Nf3", "d5", "g3" >> }

\* the k-th Math.random() draw of a call, as a numerator over RandDen
Draw(rs, ri) == rs[ri % RandLen]

RECURSIVE roulette(_, _, _, _)
\* the subtraction loop, r and the weights scaled by den; the first candidate
\* that brings the remainder to <= 0, and moves[0] when none does
roulette(moves, i, r, den) ==
  IF i > Len(moves) THEN moves[1].move
  ELSE IF r - moves[i].weight * den <= 0 THEN moves[i].move
  ELSE roulette(moves, i + 1, r - moves[i].weight * den, den)

\* getBookMove answering from the starting position's entry when the history
\* has no candidates
getBookMoveOf_fallback(c, num, den) ==
  LET pick(moves) ==
        roulette(moves, 1,
                 num * SeqSum([i \in 1..Len(moves) |-> moves[i].weight], 1), den)
  IN pick(IF Len(OPENING_BOOK(History(c)).moves) = 0 THEN OPENING_BOOK(<< >>).moves
          ELSE OPENING_BOOK(History(c)).moves)

\* getBookMove(chess) with Math.random() = num / den
getBookMoveOf(c, num, den) ==
  LET pick(moves) ==
        IF Len(moves) = 0 THEN Null
        ELSE roulette(moves, 1,
                      num * SeqSum([i \in 1..Len(moves) |-> moves[i].weight], 1), den)
  IN pick(OPENING_BOOK(History(c)).moves)

\* getBookMove(chess) with Math.random() = k / RandDen
getBookMove(c, k) == getBookMoveOf(c, k, RandDen)

isInBook(c) == OPENING_BOOK(History(c)).hasMoves

\* the same test with the ply limit included
shouldUseBook_inclusive(c, maxDepth) == Len(History(c)) <= maxDepth /\ isInBook(c)
shouldUseBook(c, maxDepth) == Len(History(c)) < maxDepth /\ isInBook(c)

-----------------------------------------------------------------------------
(* ChessBot with a transposition table: kind "tt" is services/chess-bot.ts *)
(* (multi-pass evaluator, table cleared on overflow), kind "ttp" is the    *)
(* variant with pruneCache and the cached single-pass evaluator.           *)

DEFAULT_CONFIG ==
  [searchDepth |-> 3, useOpeningBook |-> TRUE, openingBookDepth |-> 10,
   randomizationEnabled |-> TRUE, evaluationNoise |-> 1000,
   similarMoveThreshold |-> 3000]

CENTER == {"d4", "d5", "e4", "e5", "c4", "c5", "f4", "f5"}
CENTER_SQUARES == {"e4", "d4", "e5", "d5"}

\* Array.prototype.sort with comparator key(b) - key(a): descending, stable
SortDesc(ms, key(_)) ==
  LET n == Len(ms)
      place(i) == 1 + Cardinality({j \in 1..n :
                        \/ key(ms[j]) > key(ms[i])
                        \/ key(ms[j]) = key(ms[i]) /\ j < i})
  IN [q \in 1..n |-> ms[CHOOSE i \in 1..n : place(i) = q]]

\* orderMoves of the table variants: victim * 10 - attacker, centre bonus
orderMoves(kind, moves) ==
  LET center == IF kind = "tt" THEN CENTER ELSE CENTER_SQUARES
      getScore(m) == (IF m.captured # ""
                        THEN PIECE_VALUES(m.captured) * 10 - PIECE_VALUES(m.piece)
                        ELSE 0)
                     + (IF m.to \in center THEN 2 ELSE 0)
  IN SortDesc(moves, getScore)

RECURSIVE Pow10(_)
Pow10(n) == IF n < 10 THEN 10 ELSE 10 * Pow10(n \div 10)

\* chess.fen() + depth: the depth's digits are appended to the last FEN
\* field, the fullmove number
ttKey(fen, depth) == <<fen[1], fen[2], fen[3] * Pow10(depth) + depth>>

\* the evaluator asked for the score of the other side
botEvaluate_opponent(kind, cache, c, col) ==
  IF kind = "ttp" THEN spEvaluate(cache, c, Other(col))
  ELSE [score |-> mpEvaluate(c, Other(col)), cache |-> cache]

\* evaluator.evaluate(chess, col) of the bot's evaluator
botEvaluate(kind, cache, c, col) ==
  IF kind = "ttp" THEN spEvaluate(cache, c, col)
  ELSE [score |-> mpEvaluate(c, col), cache |-> cache]

\* (Math.random() - 0.5) * evaluationNoise * 2 for Math.random() = k / RandDen
noiseOf(cfg, k) == ((2 * k - RandDen) * cfg.evaluationNoise) \div RandDen

\* tt.set(key, entry) and the overflow handling that follows it
ttStore(kind, tt, key, entry) ==
  LET t == MapSet(tt, key, entry)
  IN IF kind = "tt"
       THEN (IF MapSize(t) > 50000 THEN EmptyMap ELSE t)
       ELSE pruneCache(t)

\* chess.move(move) / chess.undo() on the bot's position, with call counters
applyMove(st, m) == [st EXCEPT !.chess = MakeMove(st.chess, m), !.applied = @ + 1]
\* the same step with the chess.undo() call left out
undoMove_skipped(st) == [st EXCEPT !.undone = @ + 1]
undoMove(st) == [st EXCEPT !.chess = Undo(st.chess), !.undone = @ + 1]

RECURSIVE minimax(_, _, _, _, _, _, _)
RECURSIVE minimaxLoop(_, _, _, _, _, _, _, _, _, _)

\* the for loop over the ordered moves of one node: apply, recurse, undo,
\* keep the best, narrow the window, break on beta <= alpha
minimaxLoop(env, st, moves, i, depth, alpha, beta, max, col, acc) ==
  IF i > Len(moves) THEN [move |-> acc.move, score |-> acc.score, st |-> st]
  ELSE LET move == moves[i]
           \* after the undo: break on beta <= alpha, else the next move
           narrowed(st2, acc2, alpha2, beta2) ==
             IF beta2 <= alpha2
               THEN [move |-> acc2.move, score |-> acc2.score, st |-> st2]
               ELSE minimaxLoop(env, st2, moves, i + 1, depth, alpha2, beta2, max, col,
                                acc2)
           \* what the loop body does with the child's evaluation
           \* (an error thrown below leaves the loop before chess.undo())
           visited(evaluation) ==
             IF evaluation.st.thrown THEN evaluation
             ELSE narrowed(undoMove(evaluation.st),
                           IF (IF max THEN evaluation.score > acc.score
                               ELSE evaluation.score < acc.score)
                             THEN [move |-> move, score |-> evaluation.score] ELSE acc,
                           IF max THEN Max2(alpha, evaluation.score) ELSE alpha,
                           IF max THEN beta ELSE Min2(beta, evaluation.score))
       IN visited(minimax(env, applyMove(st, move), depth - 1, alpha, beta, ~max, col))

\* ChessBot.minimax: cache probe, base case, move loop, cache store.
\* env holds the bot's kind and config and the draws of Math.random().
minimax(env, st, depth, alpha, beta, max, col) ==
  LET key == ttKey(Fen(st.chess), depth)
      rnd == env.cfg.randomizationEnabled
      \* return of a cache hit
      hit(cached) ==
        [move |-> cached.move, score |-> cached.score,
         st |-> [st EXCEPT !.hits = @ \cup {[fen |-> Fen(st.chess), depth |-> depth,
                                             entryFen |-> cached.fen,
                                             entryDepth |-> cached.depth]}]]
      \* return of the base case, ev being the evaluator's answer
      leaf(ev) ==
        IF st.evals + 1 = st.faultAt
          THEN [move |-> NullMove, score |-> 0,
                st |-> [st EXCEPT !.evals = @ + 1, !.thrown = TRUE]]
          ELSE [move |-> NullMove,
                score |-> ev.score
                          + (IF rnd THEN noiseOf(env.cfg, Draw(env.rs, st.ri)) ELSE 0),
                st |-> [st EXCEPT !.cache = ev.cache, !.evals = @ + 1,
                                  !.ri = IF rnd THEN @ + 1 ELSE @]]
      \* tt.set and return after the move loop, r being the loop's result
      stored(r) ==
        IF r.st.thrown THEN r
        ELSE [move |-> r.move, score |-> r.score,
              st |-> [r.st EXCEPT !.tt = ttStore(env.kind, r.st.tt, key,
                                            [score |-> r.score, depth |-> depth,
                                             move |-> r.move, fen |-> Fen(st.chess)])]]
  IN IF MapHas(st.tt, key) /\ MapGet(st.tt, key).depth >= depth
       THEN hit(MapGet(st.tt, key))
     ELSE IF depth = 0 \/ IsGameOver(st.chess)
       THEN leaf(botEvaluate(env.kind, st.cache, st.chess, col))
     ELSE stored(minimaxLoop(env, st, orderMoves(env.kind, Moves(st.chess)), 1, depth,
                             alpha, beta, max, col,
                             [move |-> NullMove, score |-> IF max THEN -Inf ELSE Inf]))

\* the lookup answering with the first legal move when none matches
findBookMove_orFirst(c, bookMove) ==
  LET moves == Moves(c)
      san(m) == LET temp == MakeMove(NewChess(Fen(c)), m)
                IN temp.history[Len(temp.history)].move.san
      first(hits) ==
        IF hits = {} THEN (IF Len(moves) = 0 THEN NullMove ELSE moves[1])
        ELSE moves[CHOOSE i \in hits : \A j \in hits : i <= j]
  IN first({i \in 1..Len(moves) : san(moves[i]) = bookMove})

\* the lookup with the comparison inverted: the first legal move whose
\* notation is not the book's choice
findBookMove_mismatch(c, bookMove) ==
  LET moves == Moves(c)
      san(m) == LET temp == MakeMove(NewChess(Fen(c)), m)
                IN temp.history[Len(temp.history)].move.san
      first(hits) ==
        IF hits = {} THEN NullMove ELSE moves[CHOOSE i \in hits : \A j \in hits : i <= j]
  IN first({i \in 1..Len(moves) : san(moves[i]) # bookMove})

\* moves.find(m => temp.load(fen); temp.move(m)?.san === bookMove)
findBookMove(c, bookMove) ==
  LET moves == Moves(c)
      san(m) == LET temp == MakeMove(NewChess(Fen(c)), m)
                IN temp.history[Len(temp.history)].move.san
      first(hits) ==
        IF hits = {} THEN NullMove ELSE moves[CHOOSE i \in hits : \A j \in hits : i <= j]
  IN first({i \in 1..Len(moves) : san(moves[i]) = bookMove})

\* the search state a getBestMove call starts from
searchState(c, b) ==
  [chess |-> c, tt |-> b.tt, cache |-> b.cache, ri |-> 0,
   applied |-> 0, undone |-> 0, hits |-> {}, nodeCount |-> 0,
   \* evaluate calls made, the one that throws (0: none), an error is in flight
   evals |-> 0, faultAt |-> b.faultAt, thrown |-> FALSE]

\* getBestMove returning the book's choice without looking it up among the
\* legal moves
getBestMoveTT_unfiltered(b, c, rs) ==
  LET cfg == b.cfg
      env == [kind |-> b.kind, cfg |-> cfg, rs |-> rs]
      st1(useBook) == IF useBook THEN [searchState(c, b) EXCEPT !.ri = 1]
                      ELSE searchState(c, b)
      searched(result, bookMove) ==
        [move |-> result.move, score |-> result.score, book |-> FALSE,
         bookMove |-> bookMove, st |-> result.st]
      answer(useBook, bookMove) ==
        IF bookMove # Null
          THEN [move |-> Mv(bookMove, "", "", "", ""), score |-> 0, book |-> TRUE,
                bookMove |-> bookMove, st |-> st1(useBook)]
          ELSE searched(minimax(env, st1(useBook), cfg.searchDepth, -Inf, Inf, TRUE,
                                Turn(c)), bookMove)
      booked(useBook) ==
        answer(useBook, IF useBook THEN getBookMove(c, Draw(rs, 0)) ELSE Null)
  IN booked(cfg.useOpeningBook /\ shouldUseBook(c, cfg.openingBookDepth))
\* ChessBot.getBestMove of the table variants: book first, then the search
getBestMoveTT(b, c, rs) ==
  LET cfg == b.cfg
      env == [kind |-> b.kind, cfg |-> cfg, rs |-> rs]
      \* the search state once the book has or has not drawn from Math.random()
      st1(useBook) == IF useBook THEN [searchState(c, b) EXCEPT !.ri = 1]
                      ELSE searchState(c, b)
      searched(result, bookMove) ==
        [move |-> result.move, score |-> result.score, book |-> FALSE,
         bookMove |-> bookMove, st |-> result.st]
      \* move is the legal move matching the book's choice, if any
      answer(useBook, bookMove, move) ==
        IF move # NullMove
          THEN [move |-> move, score |-> 0, book |-> TRUE, bookMove |-> bookMove,
                st |-> st1(useBook)]
          ELSE searched(minimax(env, st1(useBook), cfg.searchDepth, -Inf, Inf, TRUE,
                                Turn(c)), bookMove)
      found(useBook, bookMove) ==
        answer(useBook, bookMove,
               IF bookMove # Null THEN findBookMove(c, bookMove) ELSE NullMove)
      booked(useBook) ==
        found(useBook, IF useBook THEN getBookMove(c, Draw(rs, 0)) ELSE Null)
  IN booked(cfg.useOpeningBook /\ shouldUseBook(c, cfg.openingBookDepth))

-----------------------------------------------------------------------------
(* The bot without a table: check-aware ordering, similar-move choice *)

isCenterSquare(square) == square \in {"d4", "d5", "e4", "e5", "c4", "c5", "f4", "f5"}

\* one call of the sort comparator: move a, isCheck, undo, move b, isCheck, undo
simCompare(st, a, b) == undoMove(applyMove(undoMove(applyMove(st, a)), b))

RECURSIVE simComparisons(_, _, _, _)
\* the comparator runs once for every pair of moves
simComparisons(st, moves, i, j) ==
  IF i >= Len(moves) THEN st
  ELSE IF j > Len(moves) THEN simComparisons(st, moves, i + 1, i + 2)
  ELSE simComparisons(simCompare(st, moves[i], moves[j]), moves, i, j + 1)

\* ChessBot.orderMoves: captures +10, checking moves +5, centre +2
simOrderMoves(st, moves) ==
  LET score(m) == (IF m.captured # "" THEN 10 ELSE 0)
                  + (IF IsCheck(MakeMove(st.chess, m)) THEN 5 ELSE 0)
                  + (IF isCenterSquare(m.to) THEN 2 ELSE 0)
  IN [moves |-> SortDesc(moves, score), st |-> simComparisons(st, moves, 1, 2)]

RECURSIVE findSimilarLoop(_, _, _, _, _, _)
findSimilarLoop(env, st, moves, i, bestScore, col) ==
  IF i > Len(moves) THEN [similar |-> <<>>, st |-> st]
  ELSE LET collected(score, rest) ==
             IF Abs(score - bestScore) <= env.cfg.similarMoveThreshold
               THEN [similar |-> <<moves[i]>> \o rest.similar, st |-> rest.st]
               ELSE rest
           moved(st1) ==
             collected(mpEvaluate(st1.chess, col),
                       findSimilarLoop(env, undoMove(st1), moves, i + 1, bestScore, col))
       IN moved(applyMove(st, moves[i]))

\* ChessBot.findSimilarMoves: the moves whose static score is near the best
findSimilarMoves(env, st, moves, bestScore, col) ==
  LET fallback(r) ==
        [similar |-> IF Len(r.similar) > 0 THEN r.similar ELSE <<moves[1]>>, st |-> r.st]
  IN fallback(findSimilarLoop(env, st, moves, 1, bestScore, col))

RECURSIVE simMinimax(_, _, _, _, _, _, _)
RECURSIVE simLoop(_, _, _, _, _, _, _, _, _, _)

simLoop(env, st, moves, i, depth, alpha, beta, max, col, acc) ==
  IF i > Len(moves) THEN [move |-> acc.move, score |-> acc.score, st |-> st]
  ELSE LET move == moves[i]
           narrowed(st2, acc2, alpha2, beta2) ==
             IF beta2 <= alpha2
               THEN [move |-> acc2.move, score |-> acc2.score, st |-> st2]
               ELSE simLoop(env, st2, moves, i + 1, depth, alpha2, beta2, max, col, acc2)
           visited(evaluation) ==
             narrowed(undoMove(evaluation.st),
                      IF (IF max THEN evaluation.score > acc.score
                          ELSE evaluation.score < acc.score)
                        THEN [move |-> move, score |-> evaluation.score] ELSE acc,
                      IF max THEN Max2(alpha, evaluation.score) ELSE alpha,
                      IF max THEN beta ELSE Min2(beta, evaluation.score))
       IN visited(simMinimax(env, applyMove(st, move), depth - 1, alpha, beta, ~max, col))

\* ChessBot.minimax without a table; the root picks among similar moves
simMinimax(env, st0, depth, alpha, beta, max, col) ==
  LET st == [st0 EXCEPT !.nodeCount = @ + 1]
      rnd == env.cfg.randomizationEnabled
      \* the root's choice among the similar moves f
      chosen(r, f) ==
        IF Len(f.similar) > 1
          THEN [move |-> f.similar[1 + (Draw(env.rs, f.st.ri) * Len(f.similar))
                                         \div RandDen],
                score |-> r.score,
                st |-> [f.st EXCEPT !.ri = @ + 1]]
          ELSE [move |-> r.move, score |-> r.score, st |-> f.st]
      \* after the move loop, r being its result
      looped(ord, r) ==
        IF max /\ rnd /\ depth = env.cfg.searchDepth
          THEN chosen(r, findSimilarMoves(env, r.st, ord.moves, r.score, col))
          ELSE r
      \* the move loop over the ordered moves
      ordered(ord) ==
        looped(ord, simLoop(env, ord.st, ord.moves, 1, depth, alpha, beta, max, col,
                            [move |-> NullMove, score |-> IF max THEN -Inf ELSE Inf]))
  IN IF depth = 0 \/ IsGameOver(st.chess)
       THEN [move |-> NullMove,
             score |-> mpEvaluate(st.chess, col)
                       + (IF rnd THEN noiseOf(env.cfg, Draw(env.rs, st.ri)) ELSE 0),
             st |-> [st EXCEPT !.ri = IF rnd THEN @ + 1 ELSE @]]
     ELSE ordered(simOrderMoves(st, Moves(st.chess)))

\* moves.find(m => this.moveToSAN(m) === bookMove), tempChess = new Chess(fen)
moveToSAN(c, m) ==
  LET tempChess == MakeMove(NewChess(Fen(c)), m)
  IN tempChess.history[Len(tempChess.history)].move.san

\* ChessBot.getBestMove of the bot without a table
getBestMoveSim(b, c, rs) ==
  LET cfg == b.cfg
      moves == Moves(c)
      env == [kind |-> b.kind, cfg |-> cfg, rs |-> rs]
      st1(useBook) == IF useBook THEN [searchState(c, b) EXCEPT !.ri = 1]
                      ELSE searchState(c, b)
      searched(result, bookMove) ==
        [move |-> result.move, score |-> result.score, book |-> FALSE,
         bookMove |-> bookMove, st |-> result.st]
      \* found: the indexes of the legal moves whose SAN is the book's choice
      answer(useBook, bookMove, found) ==
        IF bookMove # Null /\ found # {}
          THEN [move |-> moves[CHOOSE i \in found : \A j \in found : i <= j],
                score |-> 0, book |-> TRUE, bookMove |-> bookMove, st |-> st1(useBook)]
          ELSE searched(simMinimax(env, st1(useBook), cfg.searchDepth, -Inf, Inf, TRUE,
                                   Turn(c)), bookMove)
      looked(useBook, bookMove) ==
        answer(useBook, bookMove,
               {i \in 1..Len(moves) : moveToSAN(c, moves[i]) = bookMove})
      booked(useBook) ==
        looked(useBook, IF useBook THEN getBookMove(c, Draw(rs, 0)) ELSE Null)
  IN booked(cfg.useOpeningBook /\ shouldUseBook(c, cfg.openingBookDepth))

-----------------------------------------------------------------------------
(* lib/chess-ai: findBestMove and its minimax, scores from White's side *)

\* x + d in floating point: an infinite x absorbs the finite d
InfAdd(x, d) == IF x >= Inf \/ x <= -Inf THEN x ELSE x + d

RECURSIVE aiMinimax(_, _, _, _, _)
RECURSIVE aiLoop(_, _, _, _, _, _, _, _)

aiLoop(st, moves, i, depth, alpha, beta, max, best) ==
  IF i > Len(moves) THEN [score |-> best, st |-> st]
  ELSE LET narrowed(st2, best2, alpha2, beta2) ==
             IF beta2 <= alpha2 THEN [score |-> best2, st |-> st2]
             ELSE aiLoop(st2, moves, i + 1, depth, alpha2, beta2, max, best2)
           visited(evaluation) ==
             narrowed(undoMove(evaluation.st),
                      IF max THEN Max2(best, evaluation.score)
                      ELSE Min2(best, evaluation.score),
                      IF max THEN Max2(alpha, evaluation.score) ELSE alpha,
                      IF max THEN beta ELSE Min2(beta, evaluation.score))
       IN visited(aiMinimax(applyMove(st, moves[i]), depth - 1, alpha, beta, ~max))

aiMinimax(st, depth, alpha, beta, max) ==
  IF IsGameOver(st.chess)
    THEN [score |-> IF IsCheckmate(st.chess)
                      THEN (IF max THEN InfAdd(-Inf, depth) ELSE InfAdd(Inf, -depth))
                      ELSE 0,
          st |-> st]
  ELSE IF depth = 0 THEN [score |-> evaluateBoard(st.chess), st |-> st]
  ELSE aiLoop(st, Moves(st.chess), 1, depth, alpha, beta, max,
              IF max THEN -Inf ELSE Inf)

RECURSIVE findBestLoop(_, _, _, _, _, _)
findBestLoop(st, moves, i, depth, isWhiteTurn, best) ==
  IF i > Len(moves) THEN [move |-> best.move, score |-> best.score, st |-> st]
  ELSE LET visited(r) ==
             findBestLoop(undoMove(r.st), moves, i + 1, depth, isWhiteTurn,
                          IF (IF isWhiteTurn THEN r.score > best.score
                              ELSE r.score < best.score)
                            THEN [move |-> moves[i], score |-> r.score] ELSE best)
       IN visited(aiMinimax(applyMove(st, moves[i]), depth - 1, -Inf, Inf, ~isWhiteTurn))

\* findBestMove(game, depth): bestMove starts as moves[0]
findBestMove(c, depth) ==
  LET moves == Moves(c)
      isWhiteTurn == Turn(c) = "w"
      st0 == searchState(c, [tt |-> EmptyMap, cache |-> EmptyMap, faultAt |-> 0])
  IN IF Len(moves) = 0
       THEN [move |-> NullMove, score |-> 0, book |-> FALSE, bookMove |-> Null,
             st |-> st0]
       ELSE LET searched(r) ==
                  [move |-> r.move, score |-> r.score, book |-> FALSE,
                   bookMove |-> Null, st |-> r.st]
            IN searched(findBestLoop(st0, moves, 1, depth, isWhiteTurn,
                                     [move |-> moves[1],
                                      score |-> IF isWhiteTurn THEN -Inf ELSE Inf]))

-----------------------------------------------------------------------------
(* Unpruned, uncached minimax over the same tree in the same move order:   *)
(* the reference the pruned search is compared with.                       *)

RECURSIVE fullMinimax(_, _, _, _, _)
RECURSIVE fullLoop(_, _, _, _, _, _, _)

fullLoop(kind, c, moves, i, depth, max, col) ==
  IF i > Len(moves) THEN [move |-> NullMove, score |-> IF max THEN -Inf ELSE Inf]
  ELSE LET \* the earliest move wins a tie, as with the strict comparison
           kept(this, rest) ==
             IF (IF max THEN this.score >= rest.score ELSE this.score <= rest.score)
               THEN [move |-> moves[i], score |-> this.score] ELSE rest
       IN kept(fullMinimax(kind, MakeMove(c, moves[i]), depth - 1, ~max, col),
               fullLoop(kind, c, moves, i + 1, depth, max, col))

fullMinimax(kind, c, depth, max, col) ==
  IF depth = 0 \/ IsGameOver(c)
    THEN [move |-> NullMove, score |-> botEvaluate(kind, EmptyMap, c, col).score]
    ELSE fullLoop(kind, c, orderMoves(kind, Moves(c)), 1, depth, max, col)

-----------------------------------------------------------------------------
(* State machine: the live game, one bot on it, the last two engine calls *)

Kinds == {"tt", "ttp", "sim"}

\* createChessBot(chess, overrides): the defaults, {randomizationEnabled: false},
\* {useOpeningBook: false} and both switched off, at every depth
Configs ==
  {[DEFAULT_CONFIG EXCEPT !.searchDepth = d, !.useOpeningBook = o[1],
                          !.randomizationEnabled = o[2]] :
     d \in 1..MaxDepth,
     o \in {<<TRUE, TRUE>>, <<TRUE, FALSE>>, <<FALSE, TRUE>>, <<FALSE, FALSE>>}}

\* faultAt: the evaluate call of a search at which the bot's evaluator throws
\* (0: it never does)
NoBot == [kind |-> "none", cfg |-> DEFAULT_CONFIG, tt |-> EmptyMap, cache |-> EmptyMap,
          calls |-> 0, faultAt |-> 0]

NoCall ==
  [api |-> "none", kind |-> "none", cfg |-> DEFAULT_CONFIG,
   before |-> NewChess(StartFen), after |-> NewChess(StartFen),
   move |-> NullMove, score |-> 0, book |-> FALSE, bookMove |-> Null, draws |-> 0,
   fresh |-> FALSE, stale |-> FALSE,
   applied |-> 0, undone |-> 0, hits |-> {}, thrown |-> FALSE,
   ref |-> [move |-> NullMove, score |-> 0]]

\* placements of the boards: the leaves of the depth-3 tree vary
\* the placement standing on a board of the middlegame
QueenPlacement(b) ==
  CASE b = "Q0" -> "q0" [] b = "Q1" -> "q1" [] b = "Q1a" -> "q1a" [] b = "Q1b" -> "q1b"
    [] b = "Q1c" -> "q1c" [] b = "Q2" -> "q2" [] b = "Q2a" -> "q2a" [] b = "Q2b" -> "q2b"
    [] b = "Q3" -> "q3" [] b = "Q3a" -> "q3a"

\* the placement standing on a board of the ending
PhasePlacement(b) ==
  CASE b = "P16" -> "p16" [] b = "P15" -> "p15" [] b = "P14" -> "p14" [] b = "P5" -> "p5"
    [] b = "P5a" -> "p5a" [] b = "P5b" -> "p5b" [] b = "P5c" -> "p5c"

\* the placement standing on a board of the mating ending
MatePlacement(b) ==
  CASE b = "T0" -> "t0" [] b = "T1" -> "t1" [] b = "T2" -> "t2"
    [] b = "TM1" -> "tm1" [] b = "TM2" -> "tm2"

LeafBoards == {"L1", "L2", "LY"}
LeafPlacements == {"wq", "br"}
\* the material on the leaf boards: L1 and LY hold the black rook, L2 either
LeafLayouts ==
  {f \in [LeafBoards -> LeafPlacements] : f["L1"] = "br" /\ f["LY"] = "br"}
Layouts ==
  {[b \in BoardIds |-> IF b \in LeafBoards THEN f[b]
                       ELSE IF b \in QueenBoards THEN QueenPlacement(b)
                       ELSE IF b \in PhaseBoards THEN PhasePlacement(b)
                       ELSE IF b \in MateBoards THEN MatePlacement(b)
                       ELSE IF b \in {"N1", "N2", "N3"} THEN "bp" ELSE "pp"] :
     f \in LeafLayouts}

Streams == [0..(RandLen - 1) -> 0..(RandDen - 1)]

\* what a getBestMove call leaves behind, r being its result
CallRecord(b, c, r) ==
  [api |-> "getBestMove", kind |-> b.kind, cfg |-> b.cfg,
   before |-> c, after |-> r.st.chess,
   move |-> r.move, score |-> r.score, book |-> r.book,
   \* what getBookMove returned ("null": nothing, or not asked) and the
   \* number of Math.random() calls
   bookMove |-> r.bookMove, draws |-> r.st.ri,
   fresh |-> MapSize(b.tt) = 0 /\ MapSize(b.cache) = 0,
   stale |-> \E k \in DOMAIN b.tt.val :
                /\ b.tt.val[k].fen = Fen(c)
                /\ b.tt.val[k].depth < b.cfg.searchDepth,
   applied |-> r.st.applied, undone |-> r.st.undone, hits |-> r.st.hits,
   thrown |-> r.st.thrown,
   ref |-> IF b.kind = "sim" THEN [move |-> NullMove, score |-> 0]
           ELSE fullMinimax(b.kind, c, b.cfg.searchDepth, TRUE, Turn(c))]

\* no worker manager has been constructed
NoManager ==
  [variant |-> "none", worker |-> FALSE, pendingRequest |-> 0, pending |-> {},
   nextId |-> 0, promises |-> << >>,
   last |-> [pendingBefore |-> FALSE, rejected |-> FALSE, posted |-> FALSE]]

NoWorker == [inbox |-> << >>, events |-> << >>, faults |-> 0]

\* no piece registry has been initialized (calls, ops: how many handler calls
\* succeeded on it, and which handlers)
NoRegistry ==
  [byId |-> << >>, bySquare |-> << >>, captured |-> {}, calls |-> 0, ops |-> {}]

\* no bot move was awaited
NoResume == [resumed |-> FALSE, applied |-> FALSE, sentFen |-> << >>, liveFen |-> << >>,
             reset |-> FALSE]

\* the fields of a ChessService after construction: player "w", game not
\* started, signals of the starting position, no timer set, nothing awaited
\* (awaited: the FEN sent with the request makeComputerMove is awaiting,
\* reset: resetGame ran since it was sent, last: what the last resumption of
\* makeComputerMove did)
NoStore ==
  [player |-> "w", gameStarted |-> FALSE, turn |-> "w", isGameOver |-> FALSE,
   timers |-> 0, resets |-> 0, awaited |-> << >>, reset |-> FALSE, last |-> NoResume]

Init ==
  /\ layout \in Layouts
  /\ chess = NewChess(StartFen)
  /\ bot = NoBot
  /\ out = NoCall
  /\ prev = NoCall
  /\ manager = NoManager
  /\ worker = NoWorker
  /\ store = NoStore
  /\ pieceRegistry = NoRegistry

\* a move is played on the live game
ChessMove ==
  /\ out.api \in {"none", "evaluate"}
  /\ Len(chess.history) < MaxPly
  /\ \E i \in 1..Len(Moves(chess)) : chess' = MakeMove(chess, Moves(chess)[i])
  /\ UNCHANGED <<pieceRegistry, store, layout, bot, out, prev, manager, worker>>

\* createChessBot(chess, config)
CreateBot ==
  /\ bot.kind = "none"
  /\ out.api = "none"
  /\ \E k \in Kinds, cfg \in Configs :
       bot' = [kind |-> k, cfg |-> cfg, tt |-> EmptyMap, cache |-> EmptyMap, calls |-> 0,
               faultAt |-> 0]
  /\ UNCHANGED <<pieceRegistry, store, layout, chess, out, prev, manager, worker>>

\* bot.updateConfig({searchDepth: d})
UpdateConfig ==
  /\ bot.kind # "none"
  /\ bot.calls > 0
  /\ bot.calls < MaxCalls
  /\ \E d \in 1..MaxDepth : d # bot.cfg.searchDepth /\ bot' = [bot EXCEPT !.cfg.searchDepth = d]
  /\ UNCHANGED <<pieceRegistry, store, layout, chess, out, prev, manager, worker>>

\* bot.getBestMove() of a table variant on the live game
GetBestMoveTT ==
  /\ bot.kind \in {"tt", "ttp"}
  /\ bot.calls < MaxCalls
  /\ \E rs \in Streams :
       \E r \in {getBestMoveTT(bot, chess, rs)} :
          /\ chess' = r.st.chess
          /\ bot' = [bot EXCEPT !.tt = r.st.tt, !.cache = r.st.cache, !.calls = @ + 1]
          /\ out' = CallRecord(bot, chess, r)
          /\ prev' = out
  /\ UNCHANGED <<pieceRegistry, store, layout, manager, worker>>

\* bot.getBestMove() of the bot without a table
GetBestMoveSim ==
  /\ bot.kind = "sim"
  /\ bot.calls < MaxCalls
  /\ \E rs \in Streams :
       \E r \in {getBestMoveSim(bot, chess, rs)} :
          /\ chess' = r.st.chess
          /\ bot' = [bot EXCEPT !.calls = @ + 1]
          /\ out' = CallRecord(bot, chess, r)
          /\ prev' = out
  /\ UNCHANGED <<pieceRegistry, store, layout, manager, worker>>

\* findBestMove(game, depth) of lib/chess-ai on the live game
FindBestMove ==
  /\ bot.kind = "none"
  /\ out.api = "none"
  /\ \E d \in 1..MaxDepth :
       \E r \in {findBestMove(chess, d)} :
          /\ chess' = r.st.chess
          /\ out' = [CallRecord([NoBot EXCEPT !.kind = "sim", !.cfg.searchDepth = d],
                                chess, r)
                       EXCEPT !.api = "findBestMove", !.kind = "ai"]
          /\ prev' = out
  /\ UNCHANGED <<pieceRegistry, store, layout, bot, manager, worker>>

Next ==
  \/ ChessMove
  \/ CreateBot
  \/ UpdateConfig
  \/ GetBestMoveTT
  \/ GetBestMoveSim
  \/ FindBestMove

Spec == Init /\ [][Next]_vars

\* the game starts from new Chess(fen) on the middlegame with the undefended
\* queen
QueenFen == <<"Q0", 0, 20>>

InitLoaded ==
  /\ layout \in Layouts
  /\ chess = NewChess(QueenFen)
  /\ bot = NoBot
  /\ out = NoCall
  /\ prev = NoCall
  /\ manager = NoManager
  /\ worker = NoWorker
  /\ store = NoStore
  /\ pieceRegistry = NoRegistry

SpecLoaded == InitLoaded /\ [][Next]_vars

\* chess.move(m) on the live game between two getBestMove calls of the bot
\* that holds it
MoveBetweenCalls ==
  /\ bot.kind # "none"
  /\ bot.calls > 0
  /\ bot.calls < MaxCalls
  /\ Len(chess.history) < MaxPly
  /\ \E i \in 1..Len(Moves(chess)) : chess' = MakeMove(chess, Moves(chess)[i])
  /\ UNCHANGED <<pieceRegistry, store, layout, bot, out, prev, manager, worker>>

NextReuse ==
  \/ CreateBot
  \/ UpdateConfig
  \/ GetBestMoveTT
  \/ GetBestMoveSim
  \/ MoveBetweenCalls

\* one bot instance kept over the moves of a game
SpecReuse == Init /\ [][NextReuse]_vars

\* the game starts from new Chess(fen) on the ending with the two mates
MateFen == <<"T0", 0, 40>>

InitMate ==
  /\ layout \in Layouts
  /\ chess = NewChess(MateFen)
  /\ bot = NoBot
  /\ out = NoCall
  /\ prev = NoCall
  /\ manager = NoManager
  /\ worker = NoWorker
  /\ store = NoStore
  /\ pieceRegistry = NoRegistry

SpecMate == InitMate /\ [][Next]_vars

\* makeComputerMove of the store: a new bot on the live game, getBestMove,
\* chess.move(move), and a catch that logs.  The bot's evaluator throws at
\* its n-th call, or never (n = 0).
MakeComputerMove ==
  /\ out.api = "none"
  /\ bot.kind = "none"
  /\ ~IsGameOver(chess)
  /\ \E rs \in Streams, n \in 0..MaxFaultAt :
       \E b \in {[NoBot EXCEPT !.kind = "tt", !.faultAt = n]} :
       \E r \in {getBestMoveTT(b, chess, rs)} :
          /\ chess' = IF r.st.thrown \/ r.move = NullMove THEN r.st.chess
                      ELSE MakeMove(r.st.chess, r.move)
          /\ out' = [CallRecord(b, chess, r) EXCEPT !.api = "makeComputerMove"]
          /\ prev' = out
  /\ UNCHANGED <<pieceRegistry, store, layout, bot, manager, worker>>

\* makeComputerMove of the store that asks the worker: the request carries
\* chess.fen() of the live game, the worker answers with getBestMove of a new
\* bot (no config in the request) on new Chess(fen), and the store plays the
\* move on the live game
MakeComputerMoveAsync ==
  /\ out.api = "none"
  /\ bot.kind = "none"
  /\ ~IsGameOver(chess)
  /\ \E rs \in Streams :
       \E b \in {[NoBot EXCEPT !.kind = "tt"]} :
       \E r \in {getBestMoveTT(b, NewChess(Fen(chess)), rs)} :
          /\ chess' = IF r.move = NullMove THEN chess ELSE MakeMove(chess, r.move)
          /\ out' = [CallRecord(b, chess, r) EXCEPT !.api = "workerBestMove"]
          /\ prev' = out
  /\ UNCHANGED <<pieceRegistry, store, layout, bot, manager, worker>>

NextStore == ChessMove \/ MakeComputerMove \/ MakeComputerMoveAsync

SpecStore == Init /\ [][NextStore]_vars

-----------------------------------------------------------------------------
(* The worker and its manager.  Variant "guarded" is the manager with one   *)
(* pendingRequest and the worker whose listener catches; variant "idmap" is *)
(* the manager with the pending map and the worker whose listener does not. *)

InvalidFen == <<"?", 0, 1>>
WorkerFens == {<<"L2", 0, 3>>, <<"M", 0, 4>>, InvalidFen}

\* new Chess(fen) throws on a FEN that does not validate
FenThrows(fen) == fen[1] \notin BoardIds

Promise(state, value, reason) == [state |-> state, value |-> value, reason |-> reason]

Pending(m) == {i \in 1..Len(m.promises) : m.promises[i].state = "pending"}

\* settle promise i unless it is settled already
Settle(promises, i, state, value, reason) ==
  IF i \in 1..Len(promises) /\ promises[i].state = "pending"
    THEN [promises EXCEPT ![i] = Promise(state, value, reason)]
    ELSE promises

\* new ChessBotWorkerManager(): the constructor starts the worker
NewManager ==
  /\ manager.variant = "none"
  /\ chess = NewChess(StartFen) /\ bot = NoBot /\ out = NoCall
  /\ \E v \in {"guarded", "idmap"} :
       manager' = [NoManager EXCEPT !.variant = v, !.worker = TRUE]
  /\ UNCHANGED <<pieceRegistry, store, layout, chess, bot, out, prev, worker>>

\* manager.getBestMove(fen) of the manager with the single pendingRequest
getBestMoveGuarded(m, w, req) ==
  LET n == Len(m.promises) + 1
      id == n - 1
      held == m.pendingRequest # 0
      last(rej, post) == [pendingBefore |-> Pending(m) # {}, rejected |-> rej,
                          posted |-> post]
  IN IF ~m.worker
       THEN [m |-> [m EXCEPT !.promises = Append(@, Promise("rejected", NullMove,
                                                   "Worker not initialized")),
                             !.last = last(TRUE, FALSE)],
             w |-> w]
     ELSE IF held
       THEN [m |-> [m EXCEPT !.promises = Append(@, Promise("rejected", NullMove,
                                           "Another request is already in progress")),
                             !.last = last(TRUE, FALSE)],
             w |-> w]
     ELSE [m |-> [m EXCEPT !.promises = Append(@, Promise("pending", NullMove, "")),
                           !.pendingRequest = n,
                           !.last = last(FALSE, TRUE)],
           w |-> [w EXCEPT !.inbox = Append(@, [req EXCEPT !.id = id])]]

\* manager.getBestMove(fen) of the manager with the pending map
getBestMoveIdMap(m, w, req) ==
  LET n == Len(m.promises) + 1
      id == m.nextId
      last(rej, post) == [pendingBefore |-> Pending(m) # {}, rejected |-> rej,
                          posted |-> post]
  IN IF ~m.worker
       THEN [m |-> [m EXCEPT !.promises = Append(@, Promise("rejected", NullMove,
                                                   "Worker not initialized")),
                             !.last = last(TRUE, FALSE)],
             w |-> w]
     ELSE [m |-> [m EXCEPT !.promises = Append(@, Promise("pending", NullMove, "")),
                           !.nextId = @ + 1,
                           !.pending = @ \cup {id},
                           !.last = last(FALSE, TRUE)],
           w |-> [w EXCEPT !.inbox = Append(@, [req EXCEPT !.id = id])]]

\* the move the worker's bot finds: new Chess(fen), createChessBot, getBestMove
workerMove(kind, fen, rs) ==
  getBestMoveTT([NoBot EXCEPT !.kind = kind], NewChess(fen), rs).move

\* a request as posted; found is what the worker's search will return for it,
\* fixed by the FEN and by the draws rs of Math.random()
Request(variant, fen, rs) ==
  [id |-> 0, fen |-> fen,
   found |-> IF FenThrows(fen) THEN NullMove
             ELSE workerMove(IF variant = "guarded" THEN "tt" ELSE "ttp", fen, rs)]

ManagerGetBestMove ==
  /\ manager.variant # "none"
  /\ Len(manager.promises) < MaxRequests
  /\ \E fen \in WorkerFens, rs \in Streams :
       \E req \in {Request(manager.variant, fen, rs)} :
       \E r \in {IF manager.variant = "guarded"
                   THEN getBestMoveGuarded(manager, worker, req)
                   ELSE getBestMoveIdMap(manager, worker, req)} :
          manager' = r.m /\ worker' = r.w
  /\ UNCHANGED <<pieceRegistry, store, layout, chess, bot, out, prev>>

\* the listener without the try/catch: an exception surfaces as an error event
WorkerOnMessage_uncaught ==
  /\ Len(worker.inbox) > 0
  /\ LET req == Head(worker.inbox)
     IN worker' =
          [worker EXCEPT
             !.inbox = Tail(@),
             !.events =
               IF FenThrows(req.fen)
                 THEN Append(@, [kind |-> "error", id |-> req.id,
                                 move |-> NullMove, error |-> "Invalid FEN"])
                 ELSE Append(@, [kind |-> "message", id |-> req.id,
                                 move |-> req.found, error |-> ""])]
  /\ UNCHANGED <<pieceRegistry, store, layout, chess, bot, out, prev, manager>>

\* the worker's message listener takes the next request
WorkerOnMessage ==
  /\ Len(worker.inbox) > 0
  /\ LET req == Head(worker.inbox)
         guarded == manager.variant = "guarded"
     IN worker' =
          [worker EXCEPT
             !.inbox = Tail(@),
             !.events =
               IF FenThrows(req.fen)
                 THEN (IF guarded
                         \* catch: post {type: "bestMove", move: null, error}
                         THEN Append(@, [kind |-> "message", id |-> req.id,
                                         move |-> NullMove, error |-> "Invalid FEN"])
                         \* no catch: the exception surfaces as an error event
                         ELSE Append(@, [kind |-> "error", id |-> req.id,
                                         move |-> NullMove, error |-> "Invalid FEN"]))
                 ELSE Append(@, [kind |-> "message", id |-> req.id,
                                 move |-> req.found, error |-> ""])]
  /\ UNCHANGED <<pieceRegistry, store, layout, chess, bot, out, prev, manager>>

\* the worker raises an error event outside its listener's handling
WorkerFault ==
  /\ manager.worker
  /\ worker.faults < MaxFaults
  /\ worker' = [worker EXCEPT
                  !.faults = @ + 1,
                  !.events = Append(@, [kind |-> "error", id |-> 0, move |-> NullMove,
                                        error |-> "fault"])]
  /\ UNCHANGED <<pieceRegistry, store, layout, chess, bot, out, prev, manager>>

\* handleWorkerMessage of the guarded manager, worker.onmessage of the other
HandleWorkerMessage ==
  /\ Len(worker.events) > 0
  /\ Head(worker.events).kind = "message"
  /\ LET e == Head(worker.events)
         state == IF e.error # "" THEN "rejected" ELSE "resolved"
     IN manager' =
          IF manager.variant = "guarded"
            THEN (IF manager.pendingRequest # 0
                    THEN [manager EXCEPT
                            !.promises = Settle(@, manager.pendingRequest, state,
                                                e.move, e.error),
                            !.pendingRequest = 0]
                    ELSE manager)
            ELSE (IF e.id \in manager.pending
                    THEN [manager EXCEPT
                            !.promises = Settle(@, e.id + 1, state, e.move, e.error),
                            !.pending = @ \ {e.id}]
                    ELSE manager)
  /\ worker' = [worker EXCEPT !.events = Tail(@)]
  /\ UNCHANGED <<pieceRegistry, store, layout, chess, bot, out, prev>>

\* an error event reaches the manager: handleWorkerError is registered by
\* the guarded manager only
HandleWorkerError ==
  /\ Len(worker.events) > 0
  /\ Head(worker.events).kind = "error"
  /\ manager' =
       IF manager.variant = "guarded" /\ manager.pendingRequest # 0
         THEN [manager EXCEPT
                 !.promises = Settle(@, manager.pendingRequest, "rejected", NullMove,
                                     "Worker encountered an error"),
                 !.pendingRequest = 0]
         ELSE manager
  /\ worker' = [worker EXCEPT !.events = Tail(@)]
  /\ UNCHANGED <<pieceRegistry, store, layout, chess, bot, out, prev>>

RECURSIVE RejectAll(_, _, _)
RejectAll(promises, ids, reason) ==
  IF ids = {} THEN promises
  ELSE LET i == CHOOSE x \in ids : TRUE
       IN RejectAll(Settle(promises, i, "rejected", NullMove, reason), ids \ {i}, reason)

\* manager.terminate(): the worker stops, what is pending is rejected
Terminate ==
  /\ manager.worker
  /\ manager' =
       [manager EXCEPT
          !.worker = FALSE,
          !.promises =
            IF manager.variant = "guarded"
              THEN (IF manager.pendingRequest # 0
                      THEN Settle(@, manager.pendingRequest, "rejected", NullMove,
                                  "Worker terminated")
                      ELSE @)
              ELSE RejectAll(@, {id + 1 : id \in manager.pending}, "Worker terminated"),
          !.pendingRequest = 0,
          !.pending = {}]
  /\ worker' = [worker EXCEPT !.inbox = << >>, !.events = << >>]
  /\ UNCHANGED <<pieceRegistry, store, layout, chess, bot, out, prev>>

NextWorker ==
  \/ NewManager
  \/ ManagerGetBestMove
  \/ WorkerOnMessage
  \/ WorkerFault
  \/ HandleWorkerMessage
  \/ HandleWorkerError
  \/ Terminate

SpecWorker == Init /\ [][NextWorker]_vars

\* the event loops of the worker and of the page run every queued event
FairSpecWorker ==
  /\ SpecWorker
  /\ WF_vars(WorkerOnMessage)
  /\ WF_vars(HandleWorkerMessage)
  /\ WF_vars(HandleWorkerError)

-----------------------------------------------------------------------------
(* The ChessService that asks the worker: the live game, the signals the   *)
(* handlers read, the 500 ms timers set and not yet run, and the request   *)
(* makeComputerMove awaits.  Its manager is the one with the single        *)
(* pendingRequest.  A promise's continuation runs as a microtask of the    *)
(* event that settles it, before any other event.                          *)

MaxTimers == 2     \* setTimeout callbacks set and not yet run
MaxResets == 1     \* resetGame calls

\* chess.move(move) with a Move object looks the move up among the legal
\* moves by origin and target; in the positions of the model the colour, the
\* piece and the target give the origin
moveLookup(c, color, move) ==
  {i \in 1..Len(Moves(c)) : /\ Turn(c) = color
                            /\ Moves(c)[i].piece = move.piece
                            /\ Moves(c)[i].to = move.to}

\* new ChessService(): new Chess(), new ChessBotWorkerManager()
InitService ==
  /\ layout \in Layouts
  /\ chess = NewChess(StartFen)
  /\ bot = NoBot
  /\ out = NoCall
  /\ prev = NoCall
  /\ manager = [NoManager EXCEPT !.variant = "guarded", !.worker = TRUE]
  /\ worker = NoWorker
  /\ store = NoStore
  /\ pieceRegistry = NoRegistry

\* setPlayer(color), offered before the game starts
SetPlayer ==
  /\ ~store.gameStarted
  /\ store.resets = 0
  /\ chess.history = << >>
  /\ \E color \in Colors :
       /\ color # store.player
       /\ store' = [store EXCEPT !.player = color]
  /\ UNCHANGED <<pieceRegistry, layout, chess, bot, out, prev, manager, worker>>

\* onGameStart(), offered while the game has not started
OnGameStart ==
  /\ ~store.gameStarted
  /\ store.timers < MaxTimers
  /\ store' = [store EXCEPT !.gameStarted = TRUE,
                            !.timers = IF store.player = "b" THEN @ + 1 ELSE @]
  /\ UNCHANGED <<pieceRegistry, layout, chess, bot, out, prev, manager, worker>>

\* onSquareClick(square) on a target of the selected piece: chess.move, then
\* syncGameState
OnSquareClick ==
  /\ ~store.isGameOver
  /\ store.turn = store.player
  /\ Len(chess.history) < MaxPly
  /\ store.timers < MaxTimers
  /\ \E i \in 1..Len(Moves(chess)) :
       \E c \in {MakeMove(chess, Moves(chess)[i])} :
          /\ chess' = c
          /\ store' = [store EXCEPT
                         !.turn = Turn(c),
                         !.isGameOver = IsGameOver(c),
                         !.timers = IF ~IsGameOver(c) /\ Turn(c) # store.player
                                      THEN @ + 1 ELSE @]
  /\ UNCHANGED <<pieceRegistry, layout, bot, out, prev, manager, worker>>

\* resetGame(): chess.reset() and the signals of the starting position; the
\* timers and the pending request are left as they are
ResetGame ==
  /\ store.resets < MaxResets
  /\ chess' = NewChess(StartFen)
  /\ store' = [store EXCEPT !.gameStarted = FALSE, !.turn = "w", !.isGameOver = FALSE,
                            !.resets = @ + 1,
                            !.reset = store.awaited # << >>]
  /\ UNCHANGED <<pieceRegistry, layout, bot, out, prev, manager, worker>>

\* a timer runs makeComputerMove up to its await: the early return, or
\* botWorkerManager.getBestMove(chess.fen()), whose rejection is caught
ServiceMakeComputerMove ==
  /\ store.timers > 0
  /\ IF IsGameOver(chess) \/ Turn(chess) = store.player
       THEN /\ store' = [store EXCEPT !.timers = @ - 1]
            /\ UNCHANGED <<manager, worker>>
       ELSE /\ Len(manager.promises) < MaxRequests
            /\ \E rs \in Streams :
                 \E req \in {Request("guarded", Fen(chess), rs)} :
                 \E r \in {getBestMoveGuarded(manager, worker, req)} :
                    /\ manager' = r.m
                    /\ worker' = r.w
                    /\ store' = [store EXCEPT
                                   !.timers = @ - 1,
                                   !.awaited = IF r.m.last.posted THEN Fen(chess) ELSE @,
                                   !.reset = IF r.m.last.posted THEN FALSE ELSE @]
  /\ UNCHANGED <<pieceRegistry, layout, chess, bot, out, prev>>

\* a response reaches handleWorkerMessage and the awaiting makeComputerMove
\* resumes: chess.move(move) on the live game and the signals, or the catch
ServiceResume ==
  /\ Len(worker.events) > 0
  /\ Head(worker.events).kind = "message"
  /\ manager.pendingRequest # 0
  /\ LET e == Head(worker.events)
         found == IF e.error = "" /\ e.move # NullMove
                    THEN moveLookup(chess, BoardInfo(store.awaited[1]).turn, e.move)
                  ELSE {}
         resumed(applied) == [resumed |-> TRUE, applied |-> applied,
                              sentFen |-> store.awaited, liveFen |-> Fen(chess),
                              reset |-> store.reset]
     IN /\ manager' = [manager EXCEPT
                         !.promises = Settle(@, manager.pendingRequest,
                                             IF e.error # "" THEN "rejected" ELSE "resolved",
                                             e.move, e.error),
                         !.pendingRequest = 0]
        /\ worker' = [worker EXCEPT !.events = Tail(@)]
        /\ IF found # {}
             THEN \E c \in {MakeMove(chess, Moves(chess)[CHOOSE i \in found : TRUE])} :
                     /\ chess' = c
                     /\ store' = [store EXCEPT !.turn = Turn(c),
                                               !.isGameOver = IsGameOver(c),
                                               !.awaited = << >>, !.reset = FALSE,
                                               !.last = resumed(TRUE)]
             ELSE /\ chess' = chess
                  /\ store' = [store EXCEPT !.awaited = << >>, !.reset = FALSE,
                                            !.last = resumed(FALSE)]
  /\ UNCHANGED <<pieceRegistry, layout, bot, out, prev>>

NextService ==
  \/ SetPlayer
  \/ OnGameStart
  \/ OnSquareClick
  \/ ResetGame
  \/ ServiceMakeComputerMove
  \/ WorkerOnMessage
  \/ ServiceResume

SpecService == InitService /\ [][NextService]_vars

-----------------------------------------------------------------------------
(* lib/piece-registry: the registry of piece identities and its handlers.  *)
(* A square is its file (a..h as 1..8) and its rank; a Map is the function *)
(* from its keys to its values.  A handler returns ok = FALSE where the    *)
(* code throws, which it does before it changes anything.                   *)

MaxRegistryCalls == 4  \* successful handler calls on one registry

Sq(file, rank) == [file |-> file, rank |-> rank]

\* the pieces of the game the registry is initialized from, in the order of
\* `squares`: white Ke1, Rh1, pawn e5; black pawns d5 and g2
RegistryPieces ==
  << Pc("p", "b", 3, 3), Pc("p", "w", 3, 4), Pc("p", "b", 6, 6),
     Pc("k", "w", 7, 4), Pc("r", "w", 7, 7) >>

\* the squares the handlers are called with
RegistrySquares ==
  {Sq(5, 1), Sq(6, 1), Sq(7, 1), Sq(8, 1), Sq(7, 2), Sq(4, 5), Sq(5, 5), Sq(4, 6)}

PieceSymbols == {"p", "n", "b", "r", "q", "k"}
PROMOTION_PIECES == {"q", "r", "b", "n"}

\* capturedInfo left out
NoInfo == [type |-> "", color |-> ""]
CapturedInfos == {NoInfo} \cup [type : {"p", "r", "k"}, color : Colors]

getFileDifference(fromSquare, toSquare) == toSquare.file - fromSquare.file
getRankFromSquare(square) == square.rank

MapDelete(m, k) == [x \in DOMAIN m \ {k} |-> m[x]]
MapPut(m, k, v) == [x \in DOMAIN m \cup {k} |-> IF x = k THEN v ELSE m[x]]

\* the id "{color}-{type}-{occurrence}" of the i-th piece found
pieceIdOf(pieces, i) ==
  <<pieces[i].color, pieces[i].type,
    Cardinality({j \in 1..i : /\ pieces[j].color = pieces[i].color
                             /\ pieces[j].type = pieces[i].type})>>

\* the square of an entry of chess.board()
squareOf(piece) == Sq(piece.file + 1, 8 - piece.rank)

\* initializePieceRegistry(game)
initializePieceRegistry(pieces) ==
  LET found == 1..Len(pieces)
      at(id) == CHOOSE i \in found : pieceIdOf(pieces, i) = id
      on(square) == CHOOSE i \in found : squareOf(pieces[i]) = square
  IN [byId |-> [id \in {pieceIdOf(pieces, i) : i \in found} |->
                  [id |-> id, color |-> pieces[at(id)].color, type |-> pieces[at(id)].type,
                   startingSquare |-> squareOf(pieces[at(id)]),
                   currentSquare |-> squareOf(pieces[at(id)]),
                   captured |-> FALSE, moveCount |-> 0]],
      bySquare |-> [square \in {squareOf(pieces[i]) : i \in found} |->
                      pieceIdOf(pieces, on(square))],
      captured |-> {}]

\* a registry with the fields byId, bySquare and captured of r
Fields(r) == [byId |-> r.byId, bySquare |-> r.bySquare, captured |-> r.captured]

\* handlePieceMove(registry, fromSquare, toSquare, capturedInfo)
handlePieceMove(registry, fromSquare, toSquare, capturedInfo) ==
  LET failed == [ok |-> FALSE, registry |-> registry]
      pieceId == registry.bySquare[fromSquare]
      piece == registry.byId[pieceId]
      targetPieceId == registry.bySquare[toSquare]
      targetPiece == registry.byId[targetPieceId]
      \* the moving piece is updated in r
      moved(r) ==
        [ok |-> TRUE,
         registry |-> [r EXCEPT
                         !.bySquare = MapPut(MapDelete(@, fromSquare), toSquare, pieceId),
                         !.byId[pieceId].currentSquare = toSquare,
                         !.byId[pieceId].moveCount = @ + 1]]
  IN IF fromSquare \notin DOMAIN registry.bySquare THEN failed
     ELSE IF pieceId \notin DOMAIN registry.byId THEN failed
     ELSE IF piece.captured THEN failed
     ELSE IF capturedInfo # NoInfo
       THEN IF toSquare \notin DOMAIN registry.bySquare THEN failed
            ELSE IF targetPieceId \notin DOMAIN registry.byId THEN failed
            ELSE IF targetPiece.type # capturedInfo.type
                    \/ targetPiece.color # capturedInfo.color THEN failed
            ELSE IF piece.color = targetPiece.color THEN failed
            ELSE moved([registry EXCEPT
                          !.byId[targetPieceId].captured = TRUE,
                          !.byId[targetPieceId].currentSquare = toSquare,
                          !.captured = @ \cup {targetPieceId}])
     ELSE IF toSquare \in DOMAIN registry.bySquare THEN failed
     ELSE moved(registry)

\* handleCastling leaving the rook on its origin square as well
handleCastling_keepsOrigin(registry, kingMove) ==
  LET failed == [ok |-> FALSE, registry |-> registry]
      fileDiff == getFileDifference(kingMove.from, kingMove.to)
      rank == getRankFromSquare(kingMove.from)
      rookFrom == IF fileDiff = 2 THEN Sq(8, rank) ELSE Sq(1, rank)
      rookTo == IF fileDiff = 2 THEN Sq(6, rank) ELSE Sq(4, rank)
      rookId == registry.bySquare[rookFrom]
  IN IF Abs(fileDiff) # 2 THEN failed
     ELSE IF getRankFromSquare(kingMove.to) # rank THEN failed
     ELSE IF rookFrom \notin DOMAIN registry.bySquare THEN failed
     ELSE IF rookId \notin DOMAIN registry.byId THEN failed
     ELSE IF registry.byId[rookId].type # "r" THEN failed
     ELSE [ok |-> TRUE,
           registry |-> [registry EXCEPT
                           !.bySquare = MapPut(@, rookTo, rookId),
                           !.byId[rookId].currentSquare = rookTo,
                           !.byId[rookId].moveCount = @ + 1]]

\* handleCastling(registry, kingMove): the rook's part of the move
handleCastling(registry, kingMove) ==
  LET failed == [ok |-> FALSE, registry |-> registry]
      fileDiff == getFileDifference(kingMove.from, kingMove.to)
      rank == getRankFromSquare(kingMove.from)
      rookFrom == IF fileDiff = 2 THEN Sq(8, rank) ELSE Sq(1, rank)
      rookTo == IF fileDiff = 2 THEN Sq(6, rank) ELSE Sq(4, rank)
      rookId == registry.bySquare[rookFrom]
  IN IF Abs(fileDiff) # 2 THEN failed
     ELSE IF getRankFromSquare(kingMove.to) # rank THEN failed
     ELSE IF rookFrom \notin DOMAIN registry.bySquare THEN failed
     ELSE IF rookId \notin DOMAIN registry.byId THEN failed
     ELSE IF registry.byId[rookId].type # "r" THEN failed
     ELSE [ok |-> TRUE,
           registry |-> [registry EXCEPT
                           !.bySquare = MapPut(MapDelete(@, rookFrom), rookTo, rookId),
                           !.byId[rookId].currentSquare = rookTo,
                           !.byId[rookId].moveCount = @ + 1]]

\* handleEnPassant(registry, pawnMove, capturedPawnSquare): the captured
\* pawn's part of the move
handleEnPassant(registry, pawnMove, capturedPawnSquare) ==
  LET failed == [ok |-> FALSE, registry |-> registry]
      movingPawnId == registry.bySquare[pawnMove.from]
      movingPawn == registry.byId[movingPawnId]
      capturedPieceId == registry.bySquare[capturedPawnSquare]
      capturedPiece == registry.byId[capturedPieceId]
      fileDiff == Abs(getFileDifference(pawnMove.from, pawnMove.to))
      rankDiff == Abs(getRankFromSquare(pawnMove.to) - getRankFromSquare(pawnMove.from))
  IN IF pawnMove.from \notin DOMAIN registry.bySquare THEN failed
     ELSE IF movingPawnId \notin DOMAIN registry.byId THEN failed
     ELSE IF movingPawn.type # "p" THEN failed
     ELSE IF capturedPawnSquare \notin DOMAIN registry.bySquare THEN failed
     ELSE IF capturedPieceId \notin DOMAIN registry.byId THEN failed
     ELSE IF capturedPiece.type # "p" THEN failed
     ELSE IF movingPawn.color = capturedPiece.color THEN failed
     ELSE IF getRankFromSquare(capturedPawnSquare) # getRankFromSquare(pawnMove.from)
       THEN failed
     ELSE IF fileDiff # 1 \/ rankDiff # 1 THEN failed
     ELSE [ok |-> TRUE,
           registry |-> [registry EXCEPT
                           !.byId[capturedPieceId].captured = TRUE,
                           !.captured = @ \cup {capturedPieceId},
                           !.bySquare = MapDelete(@, capturedPawnSquare)]]

\* handlePromotion(registry, square, promotedTo)
handlePromotion(registry, square, promotedTo) ==
  LET failed == [ok |-> FALSE, registry |-> registry]
      pieceId == registry.bySquare[square]
      piece == registry.byId[pieceId]
  IN IF square \notin DOMAIN registry.bySquare THEN failed
     ELSE IF pieceId \notin DOMAIN registry.byId THEN failed
     ELSE IF piece.type # "p" THEN failed
     ELSE IF promotedTo \notin PROMOTION_PIECES THEN failed
     ELSE IF getRankFromSquare(square) # (IF piece.color = "w" THEN 8 ELSE 1) THEN failed
     ELSE [ok |-> TRUE, registry |-> [registry EXCEPT !.byId[pieceId].type = promotedTo]]

\* the registry after the successful call r of handler op
Called(op, r) ==
  [byId |-> r.registry.byId, bySquare |-> r.registry.bySquare,
   captured |-> r.registry.captured,
   calls |-> pieceRegistry.calls + 1, ops |-> pieceRegistry.ops \cup {op}]

\* createSignal(initializePieceRegistry(initialGame)); the positions of the
\* search play no part
InitRegistry ==
  /\ layout = CHOOSE l \in Layouts : TRUE
  /\ chess = NewChess(StartFen)
  /\ bot = NoBot
  /\ out = NoCall
  /\ prev = NoCall
  /\ manager = NoManager
  /\ worker = NoWorker
  /\ store = NoStore
  /\ pieceRegistry = Fields(initializePieceRegistry(RegistryPieces)) @@ NoRegistry

HandlePieceMove ==
  /\ pieceRegistry.calls < MaxRegistryCalls
  /\ \E fromSquare \in RegistrySquares, toSquare \in RegistrySquares,
        capturedInfo \in CapturedInfos :
       \E r \in {handlePieceMove(Fields(pieceRegistry), fromSquare, toSquare, capturedInfo)} :
          r.ok /\ pieceRegistry' = Called("handlePieceMove", r)
  /\ UNCHANGED <<layout, chess, bot, out, prev, manager, worker, store>>

HandleCastling ==
  /\ pieceRegistry.calls < MaxRegistryCalls
  /\ \E from \in RegistrySquares, to \in RegistrySquares :
       \E r \in {handleCastling(Fields(pieceRegistry), [from |-> from, to |-> to])} :
          r.ok /\ pieceRegistry' = Called("handleCastling", r)
  /\ UNCHANGED <<layout, chess, bot, out, prev, manager, worker, store>>

HandleEnPassant ==
  /\ pieceRegistry.calls < MaxRegistryCalls
  /\ \E from \in RegistrySquares, to \in RegistrySquares,
        capturedPawnSquare \in RegistrySquares :
       \E r \in {handleEnPassant(Fields(pieceRegistry), [from |-> from, to |-> to],
                                 capturedPawnSquare)} :
          r.ok /\ pieceRegistry' = Called("handleEnPassant", r)
  /\ UNCHANGED <<layout, chess, bot, out, prev, manager, worker, store>>

HandlePromotion ==
  /\ pieceRegistry.calls < MaxRegistryCalls
  /\ \E square \in RegistrySquares, promotedTo \in PieceSymbols :
       \E r \in {handlePromotion(Fields(pieceRegistry), square, promotedTo)} :
          r.ok /\ pieceRegistry' = Called("handlePromotion", r)
  /\ UNCHANGED <<layout, chess, bot, out, prev, manager, worker, store>>

NextRegistry == HandlePieceMove \/ HandleCastling \/ HandleEnPassant \/ HandlePromotion

SpecRegistry == InitRegistry /\ [][NextRegistry]_vars

-----------------------------------------------------------------------------
(* One evaluator instance called directly: "sp" is the single-pass          *)
(* evaluator with the cache, "mp" the multi-pass evaluator without one.     *)

\* new ChessEvaluator()
CreateEvaluator ==
  /\ bot.kind = "none"
  /\ manager.variant = "none"
  /\ \E k \in {"sp", "mp"} : bot' = [NoBot EXCEPT !.kind = k]
  /\ UNCHANGED <<pieceRegistry, store, layout, chess, out, prev, manager, worker>>

\* evaluator.evaluate(c, color), c the live game or new Chess(game.fen())
Evaluate ==
  /\ bot.kind \in {"sp", "mp"}
  /\ bot.calls < MaxEvals
  /\ \E color \in Colors, fromFen \in BOOLEAN :
       \E c \in {IF fromFen THEN NewChess(Fen(chess)) ELSE chess} :
       \E r \in {IF bot.kind = "sp" THEN spEvaluate(bot.cache, c, color)
                 ELSE [score |-> mpEvaluate(c, color), cache |-> bot.cache]} :
       \E own \in {IF bot.kind = "sp" THEN spEvaluate(EmptyMap, c, color).score
                   ELSE mpEvaluate(c, color)} :
          /\ bot' = [bot EXCEPT !.cache = r.cache, !.calls = @ + 1]
          /\ out' = [api |-> "evaluate", kind |-> bot.kind, color |-> color,
                     before |-> c, score |-> r.score, own |-> own,
                     cached |-> MapHas(bot.cache, Fen(c)), calls |-> bot.calls + 1]
          /\ prev' = out
  /\ UNCHANGED <<pieceRegistry, store, layout, chess, manager, worker>>

NextEval == ChessMove \/ CreateEvaluator \/ Evaluate

SpecEval == Init /\ [][NextEval]_vars

\* the evaluators on the ending loaded by new Chess(fen)
PhaseFen == <<"P16", 0, 30>>

InitPhase ==
  /\ layout \in Layouts
  /\ chess = NewChess(PhaseFen)
  /\ bot = NoBot
  /\ out = NoCall
  /\ prev = NoCall
  /\ manager = NoManager
  /\ worker = NoWorker
  /\ store = NoStore
  /\ pieceRegistry = NoRegistry

SpecPhase == InitPhase /\ [][NextEval]_vars

-----------------------------------------------------------------------------
(* The transposition table of a bot that has searched for a long time: it  *)
(* holds nearly MAX_CACHE_SIZE entries when the next ones are stored.  The  *)
(* Map is kept as the run lo..hi of the keys stored long ago, oldest first, *)
(* followed by the keys stored since, in insertion order.                   *)

\* the key of the i-th position searched long ago, and of a position of the
\* search that is running
OldKey(i) == <<"F", 0, i>>
NewKey(j) == <<"G", 0, j>>

\* the table after n stores under n different keys
Filled(n) == [lo |-> 1, hi |-> n, keys |-> << >>]

\* tt.size, tt.has(key)
TableSize(t) == (t.hi - t.lo + 1) + Len(t.keys)
TableHas(t, key) ==
  \/ \E i \in 1..Len(t.keys) : t.keys[i] = key
  \/ key[1] = "F" /\ key[3] >= t.lo /\ key[3] <= t.hi

\* tt.set(key, entry): a key the Map holds keeps its place, a new one goes last
TableSet(t, key) ==
  IF TableHas(t, key) THEN t ELSE [t EXCEPT !.keys = Append(@, key)]

\* pruneCache() of the bot: above the maximum, the first entriesToRemove keys
\* of tt.keys() are deleted
tablePrune(t) ==
  IF TableSize(t) > MAX_CACHE_SIZE
    THEN LET entriesToRemove == TableSize(t) - ((MAX_CACHE_SIZE * 7) \div 10)
             old == t.hi - t.lo + 1
         IN IF entriesToRemove <= old
              THEN [t EXCEPT !.lo = @ + entriesToRemove]
              ELSE [lo |-> t.hi + 1, hi |-> t.hi,
                    keys |-> SubSeq(t.keys, entriesToRemove - old + 1, Len(t.keys))]
    ELSE t

\* tt.set(key, entry) and the overflow handling that follows it
tableStore(kind, t, key) ==
  IF kind = "tt"
    THEN (IF TableSize(TableSet(t, key)) > 50000 THEN Filled(0) ELSE TableSet(t, key))
    ELSE tablePrune(TableSet(t, key))

InitTable ==
  /\ layout \in Layouts
  /\ chess = NewChess(StartFen)
  /\ \E k \in {"tt", "ttp"}, n \in (MAX_CACHE_SIZE - MaxInserts)..MAX_CACHE_SIZE :
       bot = [NoBot EXCEPT !.kind = k, !.tt = Filled(n)]
  /\ out = NoCall
  /\ prev = NoCall
  /\ manager = NoManager
  /\ worker = NoWorker
  /\ store = NoStore
  /\ pieceRegistry = NoRegistry

\* this.tt.set(key, entry) at the end of minimax and the overflow handling
\* after it, under a key stored long ago or a new one
TtSet ==
  /\ bot.kind \in {"tt", "ttp"}
  /\ bot.calls < MaxInserts
  /\ \E key \in {OldKey(1), OldKey(MAX_CACHE_SIZE - MaxInserts)}
                 \cup {NewKey(j) : j \in 1..MaxInserts} :
       /\ bot' = [bot EXCEPT !.tt = tableStore(bot.kind, bot.tt, key),
                             !.calls = @ + 1]
       /\ out' = [api |-> "ttSet", kind |-> bot.kind, key |-> key]
  /\ prev' = out
  /\ UNCHANGED <<pieceRegistry, store, layout, chess, manager, worker>>

NextTable == TtSet

SpecTable == InitTable /\ [][NextTable]_vars

-----------------------------------------------------------------------------
(* The opening book called directly on a game given by its played moves *)

\* a game of which only the played moves matter: history() is h
PlayedGame(h) ==
  [board |-> "R", halfMoves |-> 0, moveNumber |-> 1 + Len(h) \div 2,
   history |-> [i \in 1..Len(h) |->
                  [move |-> Mv(h[i], "", "", "", "R"), board |-> "R",
                   halfMoves |-> 0, moveNumber |-> 1 + (i - 1) \div 2]]]

\* the histories of the book and each of them left by a move outside it
BookHistories == OPENING_BOOK_KEYS \cup {Append(k, "a3") : k \in OPENING_BOOK_KEYS}

InitBook ==
  /\ layout \in Layouts
  /\ chess \in {PlayedGame(h) : h \in BookHistories}
  /\ bot = NoBot
  /\ out = NoCall
  /\ prev = NoCall
  /\ manager = NoManager
  /\ worker = NoWorker
  /\ store = NoStore
  /\ pieceRegistry = NoRegistry

\* shouldUseBook(chess, maxDepth)
ShouldUseBook ==
  /\ out.api = "none"
  /\ \E maxDepth \in 0..MaxBookDepth :
       out' = [api |-> "shouldUseBook", history |-> History(chess),
               maxDepth |-> maxDepth, num |-> 0,
               inBook |-> isInBook(chess),
               result |-> shouldUseBook(chess, maxDepth)]
  /\ UNCHANGED <<pieceRegistry, store, layout, chess, bot, prev, manager, worker>>

\* getBookMove(chess) with Math.random() = num / BookDen
GetBookMove ==
  /\ out.api = "none"
  /\ \E num \in 0..(BookDen - 1) :
       out' = [api |-> "getBookMove", history |-> History(chess),
               maxDepth |-> 0, num |-> num,
               inBook |-> isInBook(chess),
               result |-> getBookMoveOf(chess, num, BookDen)]
  /\ UNCHANGED <<pieceRegistry, store, layout, chess, bot, prev, manager, worker>>

NextBook == ShouldUseBook \/ GetBookMove

SpecBook == InitBook /\ [][NextBook]_vars

-----------------------------------------------------------------------------
(* Properties of the search *)

DeterministicConfig(cfg) == ~cfg.useOpeningBook /\ ~cfg.randomizationEnabled

\* C1: after a getBestMove or findBestMove call that returns, the position
\* object is what it was before the call (same FEN, side to move and move
\* history), and the call undid as many moves as it applied.
C1_PositionUnchanged ==
  out.api \in {"getBestMove", "findBestMove"} =>
    /\ out.after = out.before
    /\ chess = out.before
    /\ Fen(out.after) = Fen(out.before)
    /\ Turn(out.after) = Turn(out.before)
    /\ History(out.after) = History(out.before)
    /\ out.applied = out.undone

\* a depth-3 search of a table variant with cache hits that applied moves
C1_SearchedWithHits ==
  /\ out.api = "getBestMove"
  /\ out.kind = "tt"
  /\ ~out.book
  /\ out.cfg.searchDepth = 3
  /\ out.hits # {}
  /\ out.applied > 3
  /\ out.after = out.before

\* C2: with book and randomization off and an empty table, the root call of
\* the pruned, caching minimax returns the move and score of the unpruned,
\* uncached minimax over the same tree in the same move order.
C2_PrunedEqualsFull ==
  (/\ out.api = "getBestMove"
   /\ out.kind \in {"tt", "ttp"}
   /\ DeterministicConfig(out.cfg)
   /\ out.fresh) =>
    /\ out.move = out.ref.move
    /\ out.score = out.ref.score

\* C3: on a fixed position, a bot configured with {randomizationEnabled: false}
\* and every other field at its default returns the same move and score on
\* repeated getBestMove calls at the same depth.
C3_RepeatedCallsAgree ==
  (/\ out.api = "getBestMove"
   /\ prev.api = "getBestMove"
   /\ out.cfg = prev.cfg
   /\ out.cfg = [DEFAULT_CONFIG EXCEPT !.randomizationEnabled = FALSE,
                                       !.searchDepth = out.cfg.searchDepth]
   /\ out.before = prev.before) =>
    /\ out.move = prev.move
    /\ out.score = prev.score

\* every entry a call returned from the table was stored for the queried
\* position at a depth >= the queried depth
HitsAreDeepEnough ==
  \A h \in out.hits : h.entryFen = h.fen /\ h.entryDepth >= h.depth

\* C4: a table entry is returned for a query only if it was stored for the
\* same position with stored depth >= the queried depth; with a shallower
\* entry for the root in the table, the deeper query returns what a run
\* without a table returns.
C4_OnlyDeepEnoughEntries ==
  out.api = "getBestMove" =>
    /\ HitsAreDeepEnough
    /\ (out.stale /\ DeterministicConfig(out.cfg)) =>
         /\ out.move = out.ref.move
         /\ out.score = out.ref.score

\* C5: getBestMove returns null exactly when the position has no legal move
\* or is game over; on a checkmate it returns null; on a position that is
\* not game over it returns one of the legal moves.
C5_NullIffGameOver ==
  out.api = "getBestMove" =>
    /\ (out.move = NullMove) <=>
         (Len(Moves(out.before)) = 0 \/ IsGameOver(out.before))
    /\ IsCheckmate(out.before) => out.move = NullMove
    /\ ~IsGameOver(out.before) =>
         \E i \in 1..Len(Moves(out.before)) : out.move = Moves(out.before)[i]

\* getBestMove was called on a checkmate position and returned null
C5_NullOnCheckmate ==
  /\ out.api = "getBestMove"
  /\ IsCheckmate(out.before)
  /\ out.move = NullMove

-----------------------------------------------------------------------------
(* Properties of the worker manager *)

\* C6: a getBestMove call made while a request is pending is rejected and
\* posts nothing to the worker, and at most one request is outstanding.
C6_SecondRequestRejected ==
  /\ manager.last.pendingBefore => (manager.last.rejected /\ ~manager.last.posted)
  /\ Cardinality(Pending(manager)) <= 1

\* C7: every promise getBestMove returned is eventually settled.
C7_EveryPromiseSettles ==
  \A i \in 1..MaxRequests :
    (i \in Pending(manager)) ~> (i \notin Pending(manager))

-----------------------------------------------------------------------------
(* Properties of the evaluator *)

\* C8: on a checkmate position evaluate returns -1000 pawns for the side to
\* move and +1000 for the other side, whatever was evaluated before.
C8_CheckmateScore ==
  (out.api = "evaluate" /\ IsCheckmate(out.before)) =>
    out.score = (IF Turn(out.before) = out.color THEN -MATE ELSE MATE)

\* a checkmate evaluated for the winner on an instance that was used before
C8_CheckmateAfterEarlierCall ==
  /\ out.api = "evaluate"
  /\ out.kind = "sp"
  /\ out.calls = 2
  /\ IsCheckmate(out.before)
  /\ Turn(out.before) # out.color
  /\ out.score = MATE

\* C9: on a drawn position (stalemate, threefold repetition, insufficient
\* material, fifty moves) evaluate returns 0, whatever was evaluated before.
C9_DrawScore ==
  (out.api = "evaluate" /\ ~IsCheckmate(out.before) /\ IsDraw(out.before)) =>
    out.score = 0

\* C10: evaluate returns the value computed for the perspective it is called
\* with, whatever was evaluated before on the instance.
C10_OwnPerspective ==
  out.api = "evaluate" => out.score = out.own

-----------------------------------------------------------------------------
(* Properties of the opening book *)

\* C11: shouldUseBook(position, maxPly) is true exactly when the history has
\* fewer than maxPly moves and is a key of the book whose entry has a non-empty
\* candidate list; once the move count reaches maxPly it is false even for a
\* key of the book.
C11_ShouldUseBook ==
  out.api = "shouldUseBook" =>
    /\ out.result <=> (/\ Len(out.history) < out.maxDepth
                       /\ out.history \in OPENING_BOOK_KEYS
                       /\ Len(OPENING_BOOK(out.history).moves) > 0)
    /\ Len(out.history) >= out.maxDepth => ~out.result

\* a key with candidates asked at a ply limit its move count has just reached
C11_LimitReachedOnBookKey ==
  /\ out.api = "shouldUseBook"
  /\ out.history \in OPENING_BOOK_KEYS
  /\ Len(OPENING_BOOK(out.history).moves) > 0
  /\ Len(out.history) = out.maxDepth
  /\ out.maxDepth > 0
  /\ ~out.result

\* C12: getBookMove returns null when the history is no key of the book or
\* its entry has no candidates; otherwise, whatever the draw, it returns the
\* notation of one of the entry's candidates.  With an empty history
\* shouldUseBook (at the default ply limit) is true and getBookMove returns
\* one of e4, d4, Nf3, c4.
C12_BookMoveIsCandidate ==
  /\ out.api = "getBookMove" =>
       LET moves == OPENING_BOOK(out.history).moves
       IN IF out.history \notin OPENING_BOOK_KEYS \/ Len(moves) = 0
            THEN out.result = Null
            ELSE out.result \in {moves[i].move : i \in 1..Len(moves)}
  /\ (out.api = "getBookMove" /\ out.history = << >>) =>
       out.result \in {"e4", "d4", "Nf3", "c4"}
  /\ (/\ out.api = "shouldUseBook"
      /\ out.history = << >>
      /\ out.maxDepth = DEFAULT_CONFIG.openingBookDepth) => out.result

\* the last candidate of the starting position is drawn
C12_LastCandidateDrawn ==
  /\ out.api = "getBookMove"
  /\ out.history = << >>
  /\ out.result = "c4"

SearchOnly(kind, cfg, c) ==
  LET b == [kind |-> kind, cfg |-> [cfg EXCEPT !.useOpeningBook = FALSE],
            tt |-> EmptyMap, cache |-> EmptyMap, calls |-> 0, faultAt |-> 0]
  IN {IF kind = "sim" THEN getBestMoveSim(b, c, rs) ELSE getBestMoveTT(b, c, rs) :
        rs \in Streams}

\* the notations of the legal moves of c
LegalSans(c) == {Moves(c)[i].san : i \in 1..Len(Moves(c))}

\* C14: a book miss is no error.  With useOpeningBook on, when shouldUseBook
\* is false, or getBookMove returns null, or its notation matches no legal
\* move, getBestMove returns what the minimax search returns; with
\* useOpeningBook off the book is not consulted.
C14_BookMissFallsThrough ==
  out.api = "getBestMove" =>
    LET cfg == out.cfg
        miss == \/ ~shouldUseBook(out.before, cfg.openingBookDepth)
                \/ out.bookMove = Null
                \/ out.bookMove \notin LegalSans(out.before)
    IN /\ ~cfg.useOpeningBook =>
            /\ ~out.book
            /\ out.bookMove = Null
            /\ ~cfg.randomizationEnabled => out.draws = 0
       /\ (cfg.useOpeningBook /\ miss) =>
            /\ ~out.book
            /\ out.fresh => \E r \in SearchOnly(out.kind, cfg, out.before) :
                               r.move = out.move /\ r.score = out.score

\* the book drew a notation that is no legal move and the search answered
C14_UnmatchedBookMove ==
  /\ out.api = "getBestMove"
  /\ out.cfg.useOpeningBook
  /\ out.fresh
  /\ out.bookMove # Null
  /\ out.bookMove \notin LegalSans(out.before)
  /\ ~out.book
  /\ out.move # NullMove

\* the evaluator's score, for the side to move in c, of the position after m
\* (a new evaluator instance, so nothing cached)
ScoreAfter(kind, c, m) ==
  IF kind = "ttp" THEN spEvaluate(EmptyMap, MakeMove(c, m), Turn(c)).score
  ELSE mpEvaluate(MakeMove(c, m), Turn(c))

\* C15: with the book off and searchDepth >= 1, where the side to move can
\* take a queen for free getBestMove returns the capture; at searchDepth 1
\* without randomization the move returned is a legal move whose resulting
\* position has the highest evaluate score for the mover among the legal moves.
C15_TakesFreeQueen ==
  (out.api = "getBestMove" /\ ~out.book) =>
    LET c == out.before
        moves == Moves(c)
    IN /\ (/\ ~out.cfg.useOpeningBook
           /\ c.board = "Q0"
           /\ ~IsGameOver(c)
           /\ out.cfg.searchDepth >= 1) =>
            (out.move.san = "Nxd5" /\ out.move.captured = "q")
       /\ (/\ ~out.cfg.randomizationEnabled
           /\ out.cfg.searchDepth = 1
           /\ ~IsGameOver(c)) =>
            /\ \E i \in 1..Len(moves) : moves[i] = out.move
            /\ \A i \in 1..Len(moves) :
                  ScoreAfter(out.kind, c, out.move) >= ScoreAfter(out.kind, c, moves[i])

\* the queen was taken by a depth-3 search with the default randomization
C15_QueenTakenAtDepth3 ==
  /\ out.api = "getBestMove"
  /\ ~out.cfg.useOpeningBook
  /\ out.cfg.randomizationEnabled
  /\ out.cfg.searchDepth = 3
  /\ Fen(out.before) = QueenFen
  /\ out.move.captured = "q"

\* the listener of the worker has run on the request at the head of its inbox
ListenerRan ==
  /\ worker.inbox # << >>
  /\ worker'.inbox = Tail(worker.inbox)
  /\ manager' = manager

\* the manager's message handler has run on the event at the head of the queue
MessageHandled ==
  /\ worker.events # << >>
  /\ Head(worker.events).kind = "message"
  /\ worker'.events = Tail(worker.events)
  /\ worker'.inbox = worker.inbox
  /\ manager'.worker = manager.worker

\* C16: with the worker whose listener catches and the manager with the
\* single pending slot, the listener posts exactly one response per request
\* (the move found, or move null with the error message when new Chess(fen)
\* throws); on an error response the manager rejects the pending promise with
\* that message and clears the slot, and a getBestMove call made while the
\* slot is clear is accepted and posted.
C16_OneResponsePerRequest ==
  [][manager.variant = "guarded" =>
       /\ ListenerRan =>
            LET req == Head(worker.inbox)
            IN /\ Len(worker'.events) = Len(worker.events) + 1
               /\ SubSeq(worker'.events, 1, Len(worker.events)) = worker.events
               /\ LET e == worker'.events[Len(worker'.events)]
                  IN /\ e.kind = "message"
                     /\ IF FenThrows(req.fen)
                          THEN e.move = NullMove /\ e.error # ""
                          ELSE e.move = req.found /\ e.error = ""
       /\ (MessageHandled /\ Head(worker.events).error # ""
             /\ manager.pendingRequest # 0) =>
            /\ manager'.promises[manager.pendingRequest] =
                  Promise("rejected", NullMove, Head(worker.events).error)
            /\ manager'.pendingRequest = 0
       /\ (Len(manager'.promises) = Len(manager.promises) + 1
             /\ manager.worker /\ manager.pendingRequest = 0) =>
            /\ manager'.promises[Len(manager'.promises)].state = "pending"
            /\ manager'.pendingRequest = Len(manager'.promises)
            /\ Len(worker'.inbox) = Len(worker.inbox) + 1]_vars

\* a request with a FEN that does not validate was rejected with the worker's
\* message and the request made after it is in the worker's hands
C16_AcceptedAfterErrorResponse ==
  /\ manager.variant = "guarded"
  /\ Len(manager.promises) = 2
  /\ manager.promises[1] = Promise("rejected", NullMove, "Invalid FEN")
  /\ manager.promises[2].state = "pending"
  /\ manager.pendingRequest = 2
  /\ Len(worker.inbox) = 1

-----------------------------------------------------------------------------
(* Properties of the store's bot move *)

\* C17: on every exit of getBestMove, by return or by an error thrown at any
\* depth of the search, the position equals the position at entry and every
\* move applied was undone; the game of the store that caught the error is
\* the game it had before the call.
C17_UndoOnEveryExit ==
  out.api = "makeComputerMove" =>
    /\ out.after = out.before
    /\ out.applied = out.undone
    /\ out.thrown => chess = out.before

\* C18: served through the worker, the position of a game of k plies is
\* looked up in the book under the key of its k played moves: what the book
\* hands out is a candidate of that key, and the move returned comes from the
\* book only if k < openingBookDepth and that key is in the book.
C18_BookKeyIsPlayedHistory ==
  out.api = "workerBestMove" =>
    LET k == Len(out.before.history)
        entry == OPENING_BOOK(History(out.before))
    IN /\ out.bookMove # Null =>
            /\ entry.hasMoves
            /\ \E i \in 1..Len(entry.moves) : entry.moves[i].move = out.bookMove
       /\ out.book => (k < out.cfg.openingBookDepth /\ entry.hasMoves)

-----------------------------------------------------------------------------
(* Properties of the root's choice among similar moves *)

\* the minimax value, without noise, of playing m in c under a search of the
\* given depth, for the side to move in c
SearchScore(c, m, depth) ==
  fullMinimax("sim", MakeMove(c, m), depth - 1, FALSE, Turn(c)).score

\* C19: with randomizationEnabled the bot without a table returns from the
\* search a legal move whose search score is within similarMoveThreshold of
\* the best score found (up to the noise of one leaf), and the score it
\* returns is the best score of the search, whichever move was picked.
C19_RootMoveWithinThreshold ==
  (/\ out.api = "getBestMove" /\ out.kind = "sim" /\ ~out.book
   /\ out.cfg.randomizationEnabled /\ out.move # NullMove) =>
    LET c == out.before
        cfg == out.cfg
    IN /\ \E i \in 1..Len(Moves(c)) : Moves(c)[i] = out.move
       /\ Abs(SearchScore(c, out.move, cfg.searchDepth) - out.score)
            <= cfg.similarMoveThreshold + cfg.evaluationNoise
       /\ \E k \in 0..(RandDen - 1) :
            out.score = fullMinimax("sim", c, cfg.searchDepth, TRUE, Turn(c)).score
                        + noiseOf(cfg, k)

-----------------------------------------------------------------------------
(* Properties of the game phase *)

\* total value of the pieces of both sides other than the kings
TotalMaterial(ps) ==
  SeqSum([i \in 1..Len(ps) |-> IF ps[i].type # "k" THEN PIECE_VALUES(ps[i].type) ELSE 0], 1)

\* the phase by the stated limits: above 30, from 15 to 30, below 15
PhaseByLimits(total) ==
  IF total > 30 THEN "opening" ELSE IF total >= 15 THEN "middlegame" ELSE "endgame"

\* the multi-pass score of a non-terminal position with the weights and the
\* tables of the given phase
ScoreInPhase(c, color, phase) ==
  LET ps == Pieces(c)
      weights == PHASE_WEIGHTS(phase)
  IN evaluateMaterial(ps, color) * weights.material
     + evaluatePositional(ps, color, phase) * weights.positional
     + evaluateMobility(c, color) * weights.mobility
     + evaluateKingSafety(ps, color) * weights.kingSafety
     + evaluatePawnStructure(ps, color) * weights.pawnStructure
     + evaluateDevelopment(ps, color) * weights.development

\* C20: the phase is opening when the total material without the kings is
\* above 30, middlegame when it is from 15 to 30 inclusive and endgame when
\* it is below 15, and the score of a position that is not over is the
\* weighted sum with the weights of that phase.
C20_PhaseByMaterial ==
  (/\ out.api = "evaluate" /\ out.kind = "mp"
   /\ ~IsCheckmate(out.before) /\ ~IsDraw(out.before)) =>
    LET phase == PhaseByLimits(TotalMaterial(Pieces(out.before)))
    IN /\ detectGamePhase(Pieces(out.before)) = phase
       /\ out.score = ScoreInPhase(out.before, out.color, phase)

-----------------------------------------------------------------------------
(* Properties of the terms of the score *)

\* the rank (1..8) of the king of a colour on the board: row r is rank 8 - r
KingRank(ps, color) ==
  LET kings == {i \in 1..Len(ps) : ps[i].type = "k" /\ ps[i].color = color}
  IN 8 - ps[CHOOSE i \in kings : TRUE].rank

\* +0.5 on the two home ranks, -0.5 past the midline, in hundredths
KingSafetyByRank(rank, color) ==
  IF color = "w"
    THEN (IF rank <= 2 THEN 50 ELSE IF rank >= 5 THEN -50 ELSE 0)
    ELSE (IF rank >= 7 THEN 50 ELSE IF rank <= 4 THEN -50 ELSE 0)

\* the king-safety term the evaluator of this kind computes
KingSafetyTerm(kind, ps, color) ==
  IF kind = "sp" THEN spKingSafety(spScan(ps, 1, color, spInit).kRank, color)
  ELSE evaluateKingSafety(ps, color)

\* C21: the king-safety term of an evaluated position is +0.5 when the
\* perspective side's king is on its two home ranks, -0.5 when it is past the
\* midline and 0 otherwise, by the king's rank on the board (row r of
\* board() is rank 8 - r).
C21_KingSafetyByRealRank ==
  (/\ out.api = "evaluate"
   /\ ~IsCheckmate(out.before) /\ ~IsDraw(out.before)) =>
    LET ps == Pieces(out.before)
    IN KingSafetyTerm(out.kind, ps, out.color)
         = KingSafetyByRank(KingRank(ps, out.color), out.color)

\* the weights of the five terms by phase, in hundredths: positional, king
\* safety, pawn structure, development (material is 1.0)
FiveWeights(phase) ==
  CASE phase = "opening" -> [pos |-> 30, ks |-> 20, pwn |-> 10, dev |-> 50]
    [] phase = "middlegame" -> [pos |-> 50, ks |-> 40, pwn |-> 20, dev |-> 10]
    [] phase = "endgame" -> [pos |-> 40, ks |-> 10, pwn |-> 30, dev |-> 0]

\* the weighted sum of the five terms as the evaluator of this kind computes
\* each of them, with the weights of the phase the code detects
FiveTermSum(kind, c, color) ==
  LET ps == Pieces(c)
      w == FiveWeights(detectGamePhase(ps))
      a == spScan(ps, 1, color, spInit)
  IN IF kind = "sp"
       THEN a.mat * 100 * 100 + a.pos * w.pos + spKingSafety(a.kRank, color) * w.ks
            + spPawns(a.pawnFiles, 0) * w.pwn + a.dev * w.dev
       ELSE evaluateMaterial(ps, color) * 100
            + evaluatePositional(ps, color, detectGamePhase(ps)) * w.pos
            + evaluateKingSafety(ps, color) * w.ks
            + evaluatePawnStructure(ps, color) * w.pwn
            + evaluateDevelopment(ps, color) * w.dev

\* C22: on a position that is not over, evaluate (computing, not answering
\* from its cache) returns the weighted sum of material (1.0), positional,
\* king safety, pawn structure and development with the weights of the
\* position's phase, and nothing else.
C22_FiveWeightedTerms ==
  (/\ out.api = "evaluate" /\ ~out.cached
   /\ ~IsCheckmate(out.before) /\ ~IsDraw(out.before)) =>
    out.score = FiveTermSum(out.kind, out.before, out.color)

-----------------------------------------------------------------------------
(* Properties of the table's overflow handling *)

\* a tt.set call has just been made
TableStored == out'.api = "ttSet" /\ bot'.calls = bot.calls + 1

\* C23: after every insertion the table holds at most MAX_CACHE_SIZE
\* entries and the entry just inserted; when the insertion pushed the size
\* above the maximum, the table is left with 70% of the maximum, and what is
\* left are the newest keys in their order of insertion.
C23_PruneKeepsNewest ==
  [][TableStored =>
       LET inserted == TableSet(bot.tt, out'.key)
           after == bot'.tt
           left == (MAX_CACHE_SIZE * 7) \div 10
       IN /\ TableSize(after) <= MAX_CACHE_SIZE
          /\ TableHas(after, out'.key)
          /\ TableSize(inserted) <= MAX_CACHE_SIZE => after = inserted
          /\ TableSize(inserted) > MAX_CACHE_SIZE =>
               /\ TableSize(after) = left
               /\ after.hi = inserted.hi
               /\ after.lo = inserted.lo + (TableSize(inserted) - left)
               /\ after.keys = inserted.keys]_vars

-----------------------------------------------------------------------------
(* Properties of findBestMove *)

\* C24: findBestMove prefers the faster of two forced mates: where a move
\* of the side to move gives checkmate at once, the move returned gives
\* checkmate at once, whatever slower mates the search has seen.
C24_FasterMatePreferred ==
  LET c == out.before
      moves == Moves(c)
  IN (/\ out.api = "findBestMove"
      /\ \E i \in 1..Len(moves) : IsCheckmate(MakeMove(c, moves[i]))) =>
       IsCheckmate(MakeMove(c, out.move))

\* C25: a getBestMove answered from the opening book returns a member of the
\* position's legal-move list whose notation, obtained by playing it on a
\* scratch copy of the position, is the notation getBookMove returned; the
\* real position has no move applied to it.
C25_BookAnswerIsMatchingLegalMove ==
  (out.api = "getBestMove" /\ out.book) =>
    LET c == out.before
        moves == Moves(c)
    IN /\ out.bookMove # Null
       /\ \E i \in 1..Len(moves) :
            /\ moves[i] = out.move
            /\ moveToSAN(c, moves[i]) = out.bookMove
       /\ out.after = c
       /\ out.applied = 0

\* the bot answered from the book on a position with several legal moves of
\* which the book's choice is not the first
C25_BookAnswered ==
  /\ out.api = "getBestMove" /\ out.book /\ out.kind = "tt"
  /\ Len(Moves(out.before)) > 1
  /\ out.move.san = out.bookMove
  /\ out.move # Moves(out.before)[1]

\* C26: reusing one ChessBot instance never changes a result: with the
\* opening book and randomization disabled, a getBestMove call on an instance
\* that has searched before returns the (move, score) a new bot, with nothing
\* in its table, returns for the same position at the same depth.
C26_ReusedBotAgreesWithFresh ==
  (/\ out.api = "getBestMove"
   /\ out.kind = "tt"
   /\ ~out.cfg.useOpeningBook
   /\ ~out.cfg.randomizationEnabled
   /\ ~out.fresh) =>
    \E r \in SearchOnly(out.kind, out.cfg, out.before) :
       r.move = out.move /\ r.score = out.score

-----------------------------------------------------------------------------
(* Properties of the ChessService *)

\* C27: makeComputerMove never calls the manager's getBestMove while an
\* earlier getBestMove promise is still pending, under any interleaving of
\* onGameStart, onSquareClick, resetGame, the timer callbacks and the
\* worker's responses.
C27_NoCallWhilePending ==
  ~manager.last.pendingBefore

\* C28: a bot move is applied to the game only if the game is in the
\* position whose FEN was sent with the request; when resetGame ran while
\* the request was pending the late response applies no move.
C28_MoveOnlyOnSentPosition ==
  store.last.applied =>
    /\ store.last.liveFen = store.last.sentFen
    /\ ~store.last.reset

-----------------------------------------------------------------------------
(* Properties of the piece registry *)

\* C29: after any sequence of successful handlePieceMove, handleCastling,
\* handleEnPassant and handlePromotion calls from initializePieceRegistry,
\* byId holds every piece created at initialization, every bySquare entry
\* points to a piece that is not captured and whose currentSquare is that
\* square, no piece id is on two squares, and the captured set is the set of
\* the ids whose captured flag is true.
C29_RegistryConsistent ==
  pieceRegistry # NoRegistry =>
    /\ DOMAIN pieceRegistry.byId = DOMAIN initializePieceRegistry(RegistryPieces).byId
    /\ \A square \in DOMAIN pieceRegistry.bySquare :
         /\ pieceRegistry.bySquare[square] \in DOMAIN pieceRegistry.byId
         /\ ~pieceRegistry.byId[pieceRegistry.bySquare[square]].captured
         /\ pieceRegistry.byId[pieceRegistry.bySquare[square]].currentSquare = square
    /\ \A s1 \in DOMAIN pieceRegistry.bySquare, s2 \in DOMAIN pieceRegistry.bySquare :
         pieceRegistry.bySquare[s1] = pieceRegistry.bySquare[s2] => s1 = s2
    /\ pieceRegistry.captured = {id \in DOMAIN pieceRegistry.byId : pieceRegistry.byId[id].captured}

\* each of the four handlers has succeeded on the pieceRegistry, and a piece has
\* been captured
C29_AllHandlersCalled ==
  /\ pieceRegistry.ops = {"handlePieceMove", "handleCastling", "handleEnPassant",
                     "handlePromotion"}
  /\ pieceRegistry.captured # {}

-----------------------------------------------------------------------------
(* Properties of the king's placement value *)

\* the positional sum of the single-pass evaluator with each king's value
\* read from the table the total material without the kings selects: the
\* endgame table at 15 or less, the middlegame table above
PositionalByTotal(ps, color) ==
  LET endgame == TotalMaterial(ps) <= 15
      value(pc) ==
        LET row == IF pc.color = "w" THEN 7 - pc.rank ELSE pc.rank
            table == IF pc.type = "k" THEN (IF endgame THEN KING_EG ELSE KING_MG)
                     ELSE PST(pc.type)
        IN IF pc.color = color THEN table[row + 1][pc.file + 1]
           ELSE -table[row + 1][pc.file + 1]
  IN SumOver(ps, 1, value)

\* C30: the single-pass evaluator reads the placement value of both kings
\* from the endgame king table exactly when the position's total material
\* without the kings is at most 15 and from the middlegame king table
\* otherwise, wherever the kings stand in the scan of the 64 squares.
C30_KingTableByTotalMaterial ==
  (out.api = "evaluate" /\ out.kind = "sp") =>
    spScan(Pieces(out.before), 1, out.color, spInit).pos
      = PositionalByTotal(Pieces(out.before), out.color)

====
